---- MODULE Spec2Model ----
(***************************************************************************)
(* jira-claude-bot: the Daemon poll/dispatch/sleep loop (core/daemon.ts),  *)
(* the Poller's processed set (core/poller.ts) and the Worker's            *)
(* processTicket workflow (core/worker.ts) run against collaborators       *)
(* (tracker, git/gh, agent) whose every call may succeed or fail.          *)
(*                                                                         *)
(* One action is one resumption of the async code: from the completion of  *)
(* an awaited call up to the next awaited call (or the return).            *)
(*                                                                         *)
(* Spec is the daemon as the start command runs it and FairSpec adds the   *)
(* scheduling its termination relies on; PollerSpec and BranchSpec call    *)
(* the public methods of the Poller and of GitHubClient directly.          *)
(***************************************************************************)
EXTENDS Integers, Sequences, FiniteSets, TLC

\* ----------------------------------------------------------------- bounds
NumTickets == 2     \* ticket keys the tracker knows
MaxPolls == 3       \* iterations of the daemon's main loop that are explored
MaxMarks == 2       \* markProcessed calls between two clearProcessed calls

\* ------------------------------------------------------ program constants
MaxResults == 10    \* searchTickets(jql, 10)
Null == 0           \* currentTicket: string | null = null

Keys == 1..NumTickets

Base == "base"       \* workflow.pr.baseBranch
Feature == "feature" \* the branch formatPattern(branchPattern, ticket) names

NoChangesError == "No changes were made"

VARIABLES
    \* Daemon
    running,          \* Daemon.running
    currentTicket,    \* Daemon.currentTicket
    dpc,              \* where Daemon.start()/poll() is suspended
    ticket,           \* poll()'s local `ticket` (its key)
    \* Poller
    tickets,          \* getNextTicket()'s local `tickets`, once the search returned
    processedTickets, \* Poller.processedTickets
    \* Worker.processTicket (one call)
    wpc,              \* where processTicket is suspended
    ticketKey,        \* its argument
    hasUncommitted,   \* local hasUncommitted
    hasNewCommits,    \* local hasNewCommits
    pr,               \* local pr is set
    previewUrl,       \* local previewUrl is set
    errorMessage,     \* the step whose exception the catch block caught
    result,           \* the WorkResult returned
    returns,          \* WorkResults returned by this call
    calls,            \* collaborator calls made by this call, in order
    \* the local checkout the Worker operates on
    head,             \* branch that is checked out
    dirty,            \* staged, unstaged or untracked changes exist
    ahead,            \* the feature branch has commits beyond base
    \* project configuration
    waitForPreview,   \* deployment.waitForPreview
    onPrCreated,      \* workflow.transitions.onPrCreated is set
    inflight,         \* processTicket calls started and not yet returned
    \* history
    polls,            \* poll() calls so far
    dispatched,       \* per key: Worker runs started by the daemon
    outcome,          \* per key: "none", "success" or "failure" of its run
    searches,         \* getNextTicket calls whose search is in flight
    lastSearch,       \* how the search of the current poll() ended
    \* stop() and sleep()
    stopReport,       \* the ticket the latest stop() logged as being worked on
    timer,            \* the setTimeout of the latest sleep() call
    \* direct use of the Poller and GitHubClient methods
    lastOp,           \* the method called last
    marked,           \* keys passed to markProcessed since the last clearProcessed
    cleared,          \* keys a clearProcessed call has removed
    markCalls,        \* markProcessed calls since the last clearProcessed
    processedCount,   \* what getProcessedCount returned last
    localBranch,      \* the feature branch exists in the local repository
    remoteBranch,     \* the feature branch exists on origin
    branchOutcome,    \* how the latest createBranch call ended
    before,           \* the repository as the latest createBranch call found it
    \* the tracker
    comment,          \* the comment this run has posted on its ticket
    \* the code host
    deployment,       \* how this run's getDeploymentUrl call ended
    \* JiraClient.transitionTicket, called on its own
    jpc,              \* position in transitionTicket
    statusName,       \* the requested transition name
    transitions,      \* what getTransitions returned
    transition,       \* index of the transition find() selected, 0 for none
    posted,           \* ids of the transition requests sent
    thrown,           \* the error transitionTicket threw
    \* Worker.sanitizeForBranch, called on its own
    spc,              \* position in sanitizeForBranch
    text,             \* the argument of the call
    sanitized,        \* what that call returned
    \* ClaudeClient.runClaude
    apc,              \* position of the runClaude promise
    child,            \* the spawned subprocess
    onTerm,           \* what the subprocess does with SIGTERM
    killed,           \* childProcess.killed
    signals,          \* signals delivered to the subprocess
    agentTimer,       \* the timeout timer
    killTimer,        \* the 5 second timer set when the timeout fires
    code,             \* exit code reported with 'close'
    stderr,           \* captured standard error
    claudeResult,     \* what the promise resolved to
    \* the work command
    cpc,              \* position in workCommand
    configOutcome,    \* how loading and validating the configuration ended
    dryRun,           \* options.dryRun
    exitCode,         \* the exit status of the process
    \* GitHubClient.getDeploymentUrl, called on its own
    gpc,              \* position in getDeploymentUrl
    previewTimeout,   \* deployment.previewTimeout, in seconds
    maxAttempts,      \* the maxAttempts argument
    attempt,          \* the loop variable
    polled,           \* how each polling attempt made so far ended
    waits,            \* number of sleep(5000) calls made
    lookup,           \* how the call ended
    \* the poll loop over a long candidate list
    qpc,              \* position in the loop
    candidates,       \* tickets that match the candidate query
    qprocessed,       \* Poller.processedTickets
    qticket,          \* the ticket the current poll dispatched
    served,           \* tickets dispatched so far
    \* Daemon.sleep and the loop around it
    zpc,              \* position in the loop
    timeouts,         \* per sleep() call, its setTimeout timer
    intervals,        \* per sleep() call, its setInterval timer
    \* the start command and the Daemon constructor
    ipc,              \* position in startCommand
    interval,         \* options.interval
    botPollInterval,  \* globalConfig.bot.pollInterval
    parsed,           \* pollInterval as startCommand parsed it
    pollInterval,     \* this.options.pollInterval
    sleepMs           \* the argument of this.sleep

daemonVars == <<running, currentTicket, dpc, ticket, tickets, processedTickets>>
workerVars == <<wpc, ticketKey, hasUncommitted, hasNewCommits, pr, previewUrl,
                errorMessage, result, returns, inflight, calls>>
gitVars == <<head, dirty, ahead>>
configVars == <<waitForPreview, onPrCreated>>
historyVars == <<polls, dispatched, outcome, searches>>
loopVars == <<lastSearch, stopReport, timer>>
pollerUseVars == <<marked, cleared, markCalls, processedCount>>
branchVars == <<localBranch, remoteBranch, branchOutcome, before>>
apiVars == <<lastOp, pollerUseVars, branchVars>>
trackerVars == <<comment>>
hostVars == <<deployment>>
jiraVars == <<jpc, statusName, transitions, transition, posted, thrown>>
sanitizeVars == <<spc, text, sanitized>>
agentVars == <<apc, child, onTerm, killed, signals, agentTimer, killTimer, code,
               stderr, claudeResult>>
commandVars == <<cpc, configOutcome, dryRun, exitCode>>
deployVars == <<gpc, previewTimeout, maxAttempts, attempt, polled, waits, lookup>>
starveVars == <<qpc, candidates, qprocessed, qticket, served>>
sleepVars == <<zpc, timeouts, intervals>>
intervalVars == <<ipc, interval, botPollInterval, parsed, pollInterval, sleepMs>>
laterVars == <<deployVars, starveVars, sleepVars, intervalVars>>
harnessVars == <<jiraVars, sanitizeVars, agentVars, commandVars, laterVars>>
extVars == <<trackerVars, hostVars, harnessVars>>
coreVars == <<daemonVars, workerVars, gitVars, configVars, historyVars, loopVars,
              apiVars>>
vars == <<daemonVars, workerVars, gitVars, configVars, historyVars, loopVars,
          apiVars, extVars>>
settledVars == <<trackerVars, hostVars, jiraVars, sanitizeVars, agentVars,
                 commandVars>>

\* ------------------------------------------------------------ WorkResult
NoResult == [success |-> FALSE, ticketKey |-> Null, pr |-> FALSE,
             previewUrl |-> FALSE, error |-> "unset"]

\* return { success: true, ticketKey, pr, previewUrl, changesSummary }
SuccessResult(key, p, url) ==
    [success |-> TRUE, ticketKey |-> key, pr |-> p, previewUrl |-> url,
     error |-> "none"]

\* A failure return that leaves out the error message.
FailureResult_NoError(key, msg) ==
    [success |-> FALSE, ticketKey |-> key, pr |-> FALSE, previewUrl |-> FALSE,
     error |-> "none"]

\* return { success: false, ticketKey, error }
FailureResult(key, msg) ==
    [success |-> FALSE, ticketKey |-> key, pr |-> FALSE, previewUrl |-> FALSE,
     error |-> msg]

\* ------------------------------------------------------------------ Init
\* Transition names as far as toLowerCase tells them apart: a word and the
\* casing it is written in.
Words == {"done", "review"}
Casings == {"lower", "title", "upper"}
Names == [word : Words, casing : Casings]

\* String.prototype.toLowerCase
ToLowerCase(n) == [word |-> n.word, casing |-> "lower"]

\* transitionTicket has thrown nothing.
NoError == [kind |-> "none", requested |-> <<>>, available |-> <<>>]

\* The HTTP client rejected the GET or the POST.
RequestFailed(kind) == [kind |-> kind, requested |-> <<>>, available |-> <<>>]

\* The candidate list of the long-queue loop, in the query's order: one ticket
\* more than a search returns.
Queue == 1..(MaxResults + 1)

\* JavaScript values of the interval computation: undefined, NaN, a number.
Undefined == [kind |-> "undefined", n |-> 0]
NaN == [kind |-> "NaN", n |-> 0]
Num(n) == [kind |-> "number", n |-> n]

\* runClaude has not resolved.
NoClaudeResult == [success |-> FALSE, error |-> <<>>]

\* No comment posted.
NoComment == [posted |-> FALSE, prUrl |-> FALSE, preview |-> FALSE]

\* No createBranch call yet.
NoBranchCall == [op |-> "none", local |-> FALSE, remote |-> FALSE]

Init ==
    /\ running = FALSE
    /\ currentTicket = Null
    /\ dpc = "new"
    /\ ticket = Null
    /\ tickets = <<>>
    /\ processedTickets = {}
    /\ wpc = "idle"
    /\ ticketKey = Null
    /\ hasUncommitted = FALSE
    /\ hasNewCommits = FALSE
    /\ pr = FALSE
    /\ previewUrl = FALSE
    /\ errorMessage = "none"
    /\ result = NoResult
    /\ returns = 0
    /\ calls = <<>>
    /\ head = Base
    /\ dirty = FALSE
    /\ ahead = FALSE
    /\ waitForPreview \in BOOLEAN
    /\ onPrCreated \in BOOLEAN
    /\ polls = 0
    /\ dispatched = [k \in Keys |-> 0]
    /\ outcome = [k \in Keys |-> "none"]
    /\ searches = 0
    /\ inflight = 0
    /\ lastSearch = "none"
    /\ stopReport = <<>>
    /\ timer = "none"
    /\ lastOp = "none"
    /\ marked = {}
    /\ cleared = {}
    /\ markCalls = 0
    /\ processedCount = 0
    /\ localBranch = FALSE
    /\ remoteBranch = FALSE
    /\ branchOutcome = "none"
    /\ before = NoBranchCall
    /\ comment = NoComment
    /\ deployment = "none"
    /\ jpc = "idle"
    /\ statusName = [word |-> "done", casing |-> "lower"]
    /\ transitions = <<>>
    /\ transition = 0
    /\ posted = <<>>
    /\ thrown = NoError
    /\ spc = "idle"
    /\ text = <<>>
    /\ sanitized = <<>>
    /\ apc = "none"
    /\ child = "none"
    /\ onTerm = "die"
    /\ killed = FALSE
    /\ signals = <<>>
    /\ agentTimer = "none"
    /\ killTimer = "none"
    /\ code = "none"
    /\ stderr = <<>>
    /\ claudeResult = NoClaudeResult
    /\ cpc = "start"
    /\ configOutcome = "none"
    /\ dryRun = FALSE
    /\ exitCode = 0
    /\ gpc = "idle"
    /\ previewTimeout = 0
    /\ maxAttempts = 0
    /\ attempt = 0
    /\ polled = <<>>
    /\ waits = 0
    /\ lookup = "none"
    /\ qpc = "search"
    /\ candidates = Queue
    /\ qprocessed = {}
    /\ qticket = Null
    /\ served = {}
    /\ zpc = "new"
    /\ timeouts = <<>>
    /\ intervals = <<>>
    /\ ipc = "start"
    /\ interval = Undefined
    /\ botPollInterval = Undefined
    /\ parsed = Undefined
    /\ pollInterval = Undefined
    /\ sleepMs = Undefined

\* ---------------------------------------------------- Worker.processTicket
\* The awaited calls made inside `try { ... }`, in program order.
StepOrder ==
    << "fetch",       \* 1.  jira.getTicket
       "attach",      \* 2.  downloadAttachments
       "branch",      \* 3.  github.createBranch
       "agent",       \* 4.  claude.workTicket
       "status",      \* 5.  github.getStatus
       "commits",     \* 5.  github.hasNewCommits
       "commit",      \*     github.commitChanges
       "push",        \* 6.  github.pushBranch
       "summary",     \* 7.  github.getCommitSummary
       "pr",          \* 7.  github.createPullRequest
       "preview",     \* 8.  github.getDeploymentUrl
       "comment",     \* 9.  jira.addComment
       "transition",  \* 10. jira.transitionTicket
       "checkout" >>  \* 11. github.checkoutBranch(baseBranch)

TryBlock == {StepOrder[i] : i \in 1..Len(StepOrder)}

\* Where an exception thrown by the call awaited at `step` lands.
Catches_Unguarded(step) ==
    IF step \in TryBlock THEN "recover" ELSE "escaped"

Catches(step) ==
    IF step \in TryBlock THEN "recover"       \* catch (error) {
    ELSE IF step = "recover" THEN "ignored"   \*   try { checkout } catch { }
    ELSE "escaped"

Call(step, ok) == calls' = Append(calls, [step |-> step, ok |-> ok])

\* `await x()` at `step`, with the failed call attempted again.
Await_Retry(step, ok, next) ==
    /\ Call(step, ok)
    /\ wpc' = IF ok THEN next ELSE step
    /\ errorMessage' = IF ok THEN errorMessage ELSE step

\* `await x()` at `step`: on success go on to `next`, else to the handler.
Await(step, ok, next) ==
    /\ Call(step, ok)
    /\ wpc' = IF ok THEN next ELSE Catches(step)
    /\ errorMessage' = IF ok THEN errorMessage ELSE step

\* const ticket = await this.jira.getTicket(ticketKey);
\* if (ticket.attachments.length > 0) ...
GetTicket ==
    /\ wpc = "fetch"
    /\ \E ok \in BOOLEAN, attachments \in BOOLEAN :
          Await("fetch", ok, IF attachments THEN "attach" ELSE "branch")
    /\ UNCHANGED <<ticketKey, hasUncommitted, hasNewCommits, pr, previewUrl,
                   result, returns, inflight>>
    /\ UNCHANGED <<daemonVars, gitVars, configVars, apiVars, extVars, historyVars,
                   loopVars>>

\* await this.downloadAttachments(ticket);
DownloadAttachments ==
    /\ wpc = "attach"
    /\ \E ok \in BOOLEAN : Await("attach", ok, "branch")
    /\ UNCHANGED <<ticketKey, hasUncommitted, hasNewCommits, pr, previewUrl,
                   result, returns, inflight>>
    /\ UNCHANGED <<daemonVars, gitVars, configVars, apiVars, extVars, historyVars,
                   loopVars>>

\* GitHubClient.createBranch: `git checkout base` may fail (tree stays where it
\* was); pull, branch -D and checkout -b may fail (tree is on base); else the
\* tree is on the fresh feature branch, which has no commit beyond base.
CreateBranchOutcomes == {"checkout failed", "later failed", "created"}

CreateBranchHead(o, h) ==
    CASE o = "checkout failed" -> h
      [] o = "later failed"    -> Base
      [] o = "created"         -> Feature

\* `git log base..HEAD` is empty while HEAD is base or a branch just made from it.
CreateBranchAhead(o, a) == IF o = "checkout failed" THEN a ELSE FALSE

CreateBranch ==
    /\ wpc = "branch"
    /\ \E o \in CreateBranchOutcomes :
          /\ Await("branch", o = "created", "agent")
          /\ head' = CreateBranchHead(o, head)
          /\ ahead' = CreateBranchAhead(o, ahead)
    /\ UNCHANGED dirty
    /\ UNCHANGED <<ticketKey, hasUncommitted, hasNewCommits, pr, previewUrl,
                   result, returns, inflight>>
    /\ UNCHANGED <<daemonVars, configVars, apiVars, extVars, historyVars, loopVars>>

\* if (!claudeResult.success) throw new Error(`Claude Code failed: ...`)
AfterAgent_FailureIgnored(ok) == "status"

AfterAgent(ok) == IF ok THEN "status" ELSE Catches("agent")

\* const claudeResult = await this.claude.workTicket(...): whatever its result,
\* the agent may have edited files and may have committed.
WorkTicket ==
    /\ wpc = "agent"
    /\ \E ok \in BOOLEAN, edited \in BOOLEAN, committed \in BOOLEAN :
          /\ Call("agent", ok)
          /\ wpc' = AfterAgent(ok)
          /\ errorMessage' = IF ok THEN errorMessage ELSE "agent"
          /\ dirty' = (dirty \/ edited)
          /\ ahead' = (ahead \/ committed)
    /\ UNCHANGED head
    /\ UNCHANGED <<ticketKey, hasUncommitted, hasNewCommits, pr, previewUrl,
                   result, returns, inflight>>
    /\ UNCHANGED <<daemonVars, configVars, apiVars, extVars, historyVars, loopVars>>

\* const status = await this.github.getStatus();
\* const hasUncommitted = staged.length > 0 || unstaged.length > 0 || ...
GetStatus ==
    /\ wpc = "status"
    /\ \E ok \in BOOLEAN :
          /\ Await("status", ok, "commits")
          /\ hasUncommitted' = IF ok THEN dirty ELSE hasUncommitted
    /\ UNCHANGED <<ticketKey, hasNewCommits, pr, previewUrl, result, returns, inflight>>
    /\ UNCHANGED <<daemonVars, gitVars, configVars, apiVars, extVars, historyVars,
                   loopVars>>

\* hasNewCommits with a failed `git log` counted as new commits.
HasNewCommitsValue_ErrorIsNew(execOk, a) == IF execOk THEN a ELSE TRUE

\* GitHubClient.hasNewCommits: try { git log base..HEAD } catch { return false }
HasNewCommitsValue(execOk, a) == IF execOk THEN a ELSE FALSE

\* if (!hasUncommitted && !hasNewCommits) return {...}; if (hasUncommitted) commit
AfterDetect_NoCheck(unc, newc) == IF unc THEN "commit" ELSE "push"

AfterDetect_AlwaysCommits(unc, newc) ==
    IF ~unc /\ ~newc THEN "nochange" ELSE "commit"

AfterDetect(unc, newc) ==
    IF ~unc /\ ~newc THEN "nochange"
    ELSE IF unc THEN "commit" ELSE "push"

Return(res) ==
    /\ wpc' = "returned"
    /\ result' = res
    /\ returns' = returns + 1
    /\ inflight' = inflight - 1

NoReturn ==
    /\ UNCHANGED <<result, returns, inflight>>

\* const hasNewCommits = await this.github.hasNewCommits(baseBranch); followed by
\* the no-change return, which is made where the tree stands.
HasNewCommits ==
    /\ wpc = "commits"
    /\ \E execOk \in BOOLEAN :
          LET newc == HasNewCommitsValue(execOk, ahead)
              next == AfterDetect(hasUncommitted, newc)
          IN /\ Call("commits", TRUE)
             /\ hasNewCommits' = newc
             /\ IF next = "nochange"
                   THEN Return(FailureResult(ticketKey, NoChangesError))
                   ELSE wpc' = next /\ NoReturn
    /\ UNCHANGED <<ticketKey, hasUncommitted, pr, previewUrl, errorMessage>>
    /\ UNCHANGED <<daemonVars, gitVars, configVars, apiVars, extVars, historyVars,
                   loopVars>>

\* await this.github.commitChanges(`${ticketKey}: Implementation`): git add -A,
\* git commit.
CommitChanges ==
    /\ wpc = "commit"
    /\ \E ok \in BOOLEAN :
          /\ Await("commit", ok, "push")
          /\ dirty' = IF ok THEN FALSE ELSE dirty
          /\ ahead' = IF ok THEN TRUE ELSE ahead
    /\ UNCHANGED head
    /\ UNCHANGED <<ticketKey, hasUncommitted, hasNewCommits, pr, previewUrl,
                   result, returns, inflight>>
    /\ UNCHANGED <<daemonVars, configVars, apiVars, extVars, historyVars, loopVars>>

\* await this.github.pushBranch(branchName);
PushBranch ==
    /\ wpc = "push"
    /\ \E ok \in BOOLEAN : Await("push", ok, "summary")
    /\ UNCHANGED <<ticketKey, hasUncommitted, hasNewCommits, pr, previewUrl,
                   result, returns, inflight>>
    /\ UNCHANGED <<daemonVars, gitVars, configVars, apiVars, extVars, historyVars,
                   loopVars>>

\* const changesSummary = await this.github.getCommitSummary(baseBranch);
GetCommitSummary ==
    /\ wpc = "summary"
    /\ \E ok \in BOOLEAN : Await("summary", ok, "pr")
    /\ UNCHANGED <<ticketKey, hasUncommitted, hasNewCommits, pr, previewUrl,
                   result, returns, inflight>>
    /\ UNCHANGED <<daemonVars, gitVars, configVars, apiVars, extVars, historyVars,
                   loopVars>>

\* const pr = await this.github.createPullRequest(...);
\* if (this.projectConfig.deployment.waitForPreview) ...
CreatePullRequest ==
    /\ wpc = "pr"
    /\ \E ok \in BOOLEAN :
          /\ Await("pr", ok, IF waitForPreview THEN "preview" ELSE "comment")
          /\ pr' = ok
    /\ UNCHANGED <<ticketKey, hasUncommitted, hasNewCommits, previewUrl,
                   result, returns, inflight>>
    /\ UNCHANGED <<daemonVars, gitVars, configVars, apiVars, extVars, historyVars,
                   loopVars>>

\* GitHubClient.getDeploymentUrl: getPullRequest may throw; the polling loop
\* itself returns a URL or null.
DeploymentOutcomes == {"threw", "url", "null"}

\* The call is left by an exception only when getPullRequest threw; a null
\* (no URL within maxAttempts) is returned like a URL.
PreviewOk_UrlRequired(o) == o = "url"

PreviewOk(o) == o # "threw"

\* const url = await this.github.getDeploymentUrl(...); if (url) previewUrl = url
GetDeploymentUrl ==
    /\ wpc = "preview"
    /\ \E o \in DeploymentOutcomes :
          /\ Await("preview", PreviewOk(o), "comment")
          /\ previewUrl' = (o = "url")
          /\ deployment' = o
    /\ UNCHANGED <<ticketKey, hasUncommitted, hasNewCommits, pr, result, returns, inflight>>
    /\ UNCHANGED <<daemonVars, gitVars, configVars, apiVars, trackerVars,
                   harnessVars, historyVars, loopVars>>

\* Worker.formatJiraComment: `PR: ${pr.url}`, then `Preview: ${previewUrl}` if
\* previewUrl is set (then the summary and 'Ready for review.').
FormatJiraComment_NoPreview(p, url) ==
    [posted |-> TRUE, prUrl |-> p, preview |-> FALSE]

FormatJiraComment(p, url) == [posted |-> TRUE, prUrl |-> p, preview |-> url]

\* const comment = this.formatJiraComment(pr, previewUrl, changesSummary);
\* await this.jira.addComment(ticketKey, comment);
\* if (this.projectConfig.workflow.transitions.onPrCreated) ...
AddComment ==
    /\ wpc = "comment"
    /\ \E ok \in BOOLEAN :
          /\ Await("comment", ok, IF onPrCreated THEN "transition" ELSE "checkout")
          /\ comment' = IF ok THEN FormatJiraComment(pr, previewUrl) ELSE comment
    /\ UNCHANGED <<ticketKey, hasUncommitted, hasNewCommits, pr, previewUrl,
                   result, returns, inflight>>
    /\ UNCHANGED <<daemonVars, gitVars, configVars, apiVars, hostVars,
                   harnessVars, historyVars, loopVars>>

\* await this.jira.transitionTicket(ticketKey, onPrCreated);
TransitionTicket ==
    /\ wpc = "transition"
    /\ \E ok \in BOOLEAN : Await("transition", ok, "checkout")
    /\ UNCHANGED <<ticketKey, hasUncommitted, hasNewCommits, pr, previewUrl,
                   result, returns, inflight>>
    /\ UNCHANGED <<daemonVars, gitVars, configVars, apiVars, extVars, historyVars,
                   loopVars>>

\* GitHubClient.checkoutBranch: `git checkout base` moves the tree to base when
\* it succeeds and leaves it where it was when it fails.
CheckoutHead_Nothing(ok, h) == h

CheckoutHead(ok, h) == IF ok THEN Base ELSE h

CheckoutAhead(ok, a) == IF ok THEN FALSE ELSE a

\* 11. await this.github.checkoutBranch(baseBranch); return { success: true, ... }
AfterCheckout_FailureIgnored(ok) == "success"

AfterCheckout(ok) == IF ok THEN "success" ELSE Catches("checkout")

ReturnToBase ==
    /\ wpc = "checkout"
    /\ \E ok \in BOOLEAN :
          /\ Call("checkout", ok)
          /\ head' = CheckoutHead(ok, head)
          /\ ahead' = CheckoutAhead(ok, ahead)
          /\ IF AfterCheckout(ok) = "success"
                THEN /\ Return(SuccessResult(ticketKey, pr, previewUrl))
                     /\ UNCHANGED errorMessage
                ELSE /\ wpc' = AfterCheckout(ok)
                     /\ errorMessage' = "checkout"
                     /\ NoReturn
    /\ UNCHANGED dirty
    /\ UNCHANGED <<ticketKey, hasUncommitted, hasNewCommits, pr, previewUrl>>
    /\ UNCHANGED <<daemonVars, configVars, apiVars, extVars, historyVars, loopVars>>

\* catch (error) { try { await checkoutBranch(baseBranch) } catch { }
\*                 return { success: false, ticketKey, error: errorMessage } }
Recover ==
    /\ wpc = "recover"
    /\ \E ok \in BOOLEAN :
          /\ Call("recover", ok)
          /\ head' = CheckoutHead(ok, head)
          /\ ahead' = CheckoutAhead(ok, ahead)
          /\ IF ok \/ Catches("recover") = "ignored"
                THEN Return(FailureResult(ticketKey, errorMessage))
                ELSE wpc' = "escaped" /\ NoReturn
    /\ UNCHANGED dirty
    /\ UNCHANGED <<ticketKey, hasUncommitted, hasNewCommits, pr, previewUrl,
                   errorMessage>>
    /\ UNCHANGED <<daemonVars, configVars, apiVars, extVars, historyVars, loopVars>>

WorkerStep ==
    \/ GetTicket
    \/ DownloadAttachments
    \/ CreateBranch
    \/ WorkTicket
    \/ GetStatus
    \/ HasNewCommits
    \/ CommitChanges
    \/ PushBranch
    \/ GetCommitSummary
    \/ CreatePullRequest
    \/ GetDeploymentUrl
    \/ AddComment
    \/ TransitionTicket
    \/ ReturnToBase
    \/ Recover

\* ---------------------------------------------------------------- Poller
Min(a, b) == IF a < b THEN a ELSE b

\* What jira.searchTickets(jql, 10) can return: the matching tickets in the
\* query's order, at most MaxResults of them, each key once.
SearchResults ==
    {s \in UNION {[1..n -> Keys] : n \in 0..Min(MaxResults, NumTickets)} :
        \A i, j \in DOMAIN s : i # j => s[i] # s[j]}

\* tickets.filter(t => !this.processedTickets.has(t.key))
Available_NoFilter(batch, processed) == batch

Available(batch, processed) ==
    SelectSeq(batch, LAMBDA t : t \notin processed)

\* return available[0]
GetNextTicket_Last(searchOk, batch, processed) ==
    IF ~searchOk THEN Null
    ELSE LET available == Available(batch, processed)
         IN IF Len(available) = 0 THEN Null ELSE available[Len(available)]

\* Poller.getNextTicket: null when the search throws or nothing is left after
\* the filter, else available[0].
GetNextTicket(searchOk, batch, processed) ==
    IF ~searchOk THEN Null
    ELSE LET available == Available(batch, processed)
         IN IF Len(available) = 0 THEN Null ELSE available[1]

\* Poller.markProcessed: this.processedTickets.add(ticketKey)
MarkProcessed_Replaces(processed, key) == {key}

MarkProcessed(processed, key) == processed \cup {key}

\* Poller.clearProcessed: this.processedTickets.clear()
ClearProcessed_Keeps(processed) == processed

ClearProcessed(processed) == {}

\* Poller.getProcessedCount: return this.processedTickets.size
GetProcessedCount(processed) == Cardinality(processed)

\* ---------------------------------------------------------------- Daemon
\* Daemon.start up to the main loop: this.running = true; process.on(...)
Start ==
    /\ dpc = "new"
    /\ running' = TRUE
    /\ dpc' = "loop"
    /\ UNCHANGED <<currentTicket, ticket, tickets, processedTickets>>
    /\ UNCHANGED <<workerVars, gitVars, configVars, apiVars, extVars, historyVars, loopVars>>

\* while (this.running) { ... }
LoopContinues_Forever(r) == TRUE

LoopContinues(r) == r

\* while (this.running) { await this.poll(); ... } ; this.logger.info('Daemon stopped')
\* poll() runs up to `await this.jira.searchTickets(jql, 10)`.
LoopTest ==
    /\ dpc = "loop"
    /\ LoopContinues(running) => polls < MaxPolls
    /\ dpc' = IF LoopContinues(running) THEN "search" ELSE "stopped"
    /\ polls' = IF LoopContinues(running) THEN polls + 1 ELSE polls
    /\ searches' = IF LoopContinues(running) THEN searches + 1 ELSE searches
    /\ lastSearch' = IF LoopContinues(running) THEN "none" ELSE lastSearch
    /\ UNCHANGED <<running, currentTicket, ticket, tickets, processedTickets>>
    /\ UNCHANGED <<dispatched, outcome>>
    /\ UNCHANGED <<stopReport, timer>>
    /\ UNCHANGED <<workerVars, gitVars, configVars, apiVars, extVars>>

\* const tickets = await this.jira.searchTickets(jql, 10) returns.
SearchReturns ==
    /\ dpc = "search"
    /\ \E found \in SearchResults : tickets' = found
    /\ dpc' = "found"
    /\ searches' = searches - 1
    /\ lastSearch' = "ok"
    /\ UNCHANGED <<running, currentTicket, ticket, processedTickets>>
    /\ UNCHANGED <<polls, dispatched, outcome>>
    /\ UNCHANGED <<stopReport, timer>>
    /\ UNCHANGED <<workerVars, gitVars, configVars, apiVars, extVars>>

\* catch (error) { this.logger.error(...); return null; }: the exception of
\* the search ends inside getNextTicket.
OnSearchError_Propagates == "crashed"

OnSearchError == "polled"

\* searchTickets throws: catch (error) { logger.error(...); return null }, and
\* poll() returns ('No tickets to process').
SearchFails ==
    /\ dpc = "search"
    /\ dpc' = OnSearchError
    /\ searches' = searches - 1
    /\ lastSearch' = "failed"
    /\ ticket' = GetNextTicket(FALSE, tickets, processedTickets)
    /\ UNCHANGED <<running, currentTicket, tickets, processedTickets>>
    /\ UNCHANGED <<polls, dispatched, outcome>>
    /\ UNCHANGED <<stopReport, timer>>
    /\ UNCHANGED <<workerVars, gitVars, configVars, apiVars, extVars>>

\* const result = await worker.processTicket(ticket.key): poll() is suspended
\* until the Worker has returned.
AfterDispatch_NotAwaited == "polled"

AfterDispatch == "working"

\* getNextTicket filters and returns; poll() either returns ('No tickets to
\* process') or records currentTicket, constructs a Worker and calls
\* processTicket, which runs up to `await this.jira.getTicket(ticketKey)`.
Dispatch ==
    /\ dpc = "found"
    /\ LET t == GetNextTicket(TRUE, tickets, processedTickets)
       IN /\ tickets' = <<>>
          /\ IF t = Null
                THEN /\ dpc' = "polled"
                     /\ UNCHANGED <<currentTicket, ticket, dispatched>>
                     /\ UNCHANGED workerVars
                ELSE /\ dpc' = AfterDispatch
                     /\ ticket' = t
                     /\ currentTicket' = t
                     /\ dispatched' = [dispatched EXCEPT ![t] = @ + 1]
                     /\ wpc' = "fetch"
                     /\ ticketKey' = t
                     /\ hasUncommitted' = FALSE
                     /\ hasNewCommits' = FALSE
                     /\ pr' = FALSE
                     /\ previewUrl' = FALSE
                     /\ errorMessage' = "none"
                     /\ result' = NoResult
                     /\ returns' = 0
                     /\ inflight' = inflight + 1
                     /\ calls' = <<>>
    /\ UNCHANGED <<running, processedTickets>>
    /\ UNCHANGED <<polls, outcome, searches>>
    /\ comment' = NoComment
    /\ deployment' = "none"
    /\ UNCHANGED <<gitVars, configVars, apiVars, loopVars, harnessVars>>

\* this.poller.markProcessed(ticket.key), whatever result.success is.
ProcessedAfterRun_OnlySuccess(res, key, processed) ==
    IF res.success THEN MarkProcessed(processed, key) ELSE processed

ProcessedAfterRun(res, key, processed) == MarkProcessed(processed, key)

\* this.currentTicket = null, whatever result.success is.
CurrentAfterRun_OnlySuccess(res, current) ==
    IF res.success THEN Null ELSE current

CurrentAfterRun(res, current) == Null

\* if (result.success) {...} else { logger.error(...) }: poll() returns either way.
AfterWorker_FailureEndsLoop(res) == IF res.success THEN "polled" ELSE "stopped"

AfterWorker(res) == "polled"

\* processTicket has returned: markProcessed, currentTicket = null, log, and
\* poll() returns.
WorkerDone ==
    /\ dpc = "working"
    /\ wpc = "returned"
    /\ processedTickets' = ProcessedAfterRun(result, ticket, processedTickets)
    /\ currentTicket' = CurrentAfterRun(result, currentTicket)
    /\ outcome' = [outcome EXCEPT
                     ![ticket] = IF result.success THEN "success" ELSE "failure"]
    /\ dpc' = AfterWorker(result)
    /\ ticket' = Null
    /\ wpc' = "idle"
    /\ ticketKey' = Null
    /\ hasUncommitted' = FALSE
    /\ hasNewCommits' = FALSE
    /\ pr' = FALSE
    /\ previewUrl' = FALSE
    /\ errorMessage' = "none"
    /\ result' = NoResult
    /\ returns' = 0
    /\ calls' = <<>>
    /\ UNCHANGED <<running, tickets, inflight>>
    /\ UNCHANGED <<polls, dispatched, searches>>
    /\ comment' = NoComment
    /\ deployment' = "none"
    /\ UNCHANGED <<gitVars, configVars, apiVars, loopVars, harnessVars>>

\* if (this.running) { await this.sleep(...) }, else back to the loop test.
AfterPollNext_AlwaysSleeps(r) == "sleeping"

AfterPollNext(r) == IF r THEN "sleeping" ELSE "loop"

\* poll() has returned: if (this.running) { await this.sleep(pollInterval * 1000) };
\* sleep() runs up to its promise: const timeout = setTimeout(resolve, ms) and
\* the 100 ms setInterval are created.
AfterPoll ==
    /\ dpc = "polled"
    /\ dpc' = AfterPollNext(running)
    /\ timer' = IF dpc' = "sleeping" THEN "pending" ELSE timer
    /\ UNCHANGED <<running, currentTicket, ticket, tickets, processedTickets>>
    /\ UNCHANGED <<lastSearch, stopReport>>
    /\ UNCHANGED <<workerVars, gitVars, configVars, apiVars, extVars, historyVars>>

\* Daemon.sleep: setTimeout(resolve, ms) fires.
SleepTimeout ==
    /\ dpc = "sleeping"
    /\ timer = "pending"
    /\ timer' = "fired"
    /\ dpc' = "loop"
    /\ UNCHANGED <<running, currentTicket, ticket, tickets, processedTickets>>
    /\ UNCHANGED <<lastSearch, stopReport>>
    /\ UNCHANGED <<workerVars, gitVars, configVars, apiVars, extVars, historyVars>>

\* clearTimeout(timeout)
ClearTimeout_Missing(t) == t

ClearTimeout(t) == "cleared"

\* Daemon.sleep: the 100 ms interval finds !this.running: clearTimeout(timeout),
\* clearInterval(checkRunning), resolve().
SleepInterrupted ==
    /\ dpc = "sleeping"
    /\ ~running
    /\ timer' = ClearTimeout(timer)
    /\ dpc' = "loop"
    /\ UNCHANGED <<running, currentTicket, ticket, tickets, processedTickets>>
    /\ UNCHANGED <<lastSearch, stopReport>>
    /\ UNCHANGED <<workerVars, gitVars, configVars, apiVars, extVars, historyVars>>

\* The signal handlers run as event-loop callbacks, so stop() runs only while
\* the async code is suspended on I/O or a timer: during the search, during an
\* awaited call of the Worker, during sleep(), or after start() has returned.
\* The continuation that follows a resolved promise (the worker's return up to
\* currentTicket = null, poll()'s return up to the next await) runs without a
\* callback in between.
AwaitingIO ==
    \/ dpc \in {"search", "sleeping", "stopped"}
    \/ dpc = "working" /\ wpc \notin {"idle", "returned"}

\* The message stop() logs: 'Stopping... (currently working on X)' when
\* this.currentTicket is set, 'Stopping daemon...' otherwise; represented by
\* the ticket it names.
StopMessage(current) == <<current>>

\* this.running = false
RunningAfterStop_Toggled(r) == ~r

RunningAfterStop(r) == FALSE

\* Daemon.stop, called by the SIGINT/SIGTERM handlers start() registered.
Stop ==
    /\ AwaitingIO
    /\ stopReport' = StopMessage(currentTicket)
    /\ running' = RunningAfterStop(running)
    /\ UNCHANGED <<currentTicket, dpc, ticket, tickets, processedTickets>>
    /\ UNCHANGED <<lastSearch, timer>>
    /\ UNCHANGED <<workerVars, gitVars, configVars, apiVars, extVars, historyVars>>

Next ==
    \/ Start
    \/ LoopTest
    \/ SearchReturns
    \/ SearchFails
    \/ Dispatch
    \/ WorkerStep
    \/ WorkerDone
    \/ AfterPoll
    \/ SleepTimeout
    \/ SleepInterrupted
    \/ Stop

Spec == Init /\ [][Next]_vars

\* ------------------------------------------------- the Poller used directly
\* The Poller's public methods called in any order, as a caller other than
\* the daemon may (the daemon itself never calls clearProcessed or
\* getProcessedCount).

\* await poller.getNextTicket(): the search returns a batch or throws.
CallGetNextTicket ==
    /\ \E searchOk \in BOOLEAN, batch \in SearchResults :
          /\ tickets' = IF searchOk THEN batch ELSE <<>>
          /\ ticket' = GetNextTicket(searchOk, batch, processedTickets)
          /\ lastOp' = IF searchOk THEN "getNextTicket" ELSE "getNextTicket failed"
    /\ UNCHANGED <<running, currentTicket, dpc, processedTickets>>
    /\ UNCHANGED <<workerVars, gitVars, configVars, historyVars, loopVars>>
    /\ UNCHANGED <<pollerUseVars, branchVars>>
    /\ UNCHANGED extVars

\* poller.markProcessed(key)
CallMarkProcessed ==
    /\ markCalls < MaxMarks
    /\ \E key \in Keys :
          /\ processedTickets' = MarkProcessed(processedTickets, key)
          /\ marked' = marked \cup {key}
    /\ markCalls' = markCalls + 1
    /\ lastOp' = "markProcessed"
    /\ UNCHANGED <<running, currentTicket, dpc, ticket, tickets>>
    /\ UNCHANGED <<workerVars, gitVars, configVars, historyVars, loopVars>>
    /\ UNCHANGED <<cleared, processedCount, branchVars>>
    /\ UNCHANGED extVars

\* poller.clearProcessed()
CallClearProcessed ==
    /\ processedTickets' = ClearProcessed(processedTickets)
    /\ cleared' = cleared \cup marked
    /\ marked' = {}
    /\ markCalls' = 0
    /\ lastOp' = "clearProcessed"
    /\ UNCHANGED <<running, currentTicket, dpc, ticket, tickets>>
    /\ UNCHANGED <<workerVars, gitVars, configVars, historyVars, loopVars>>
    /\ UNCHANGED <<processedCount, branchVars>>
    /\ UNCHANGED extVars

\* poller.getProcessedCount()
CallGetProcessedCount ==
    /\ processedCount' = GetProcessedCount(processedTickets)
    /\ lastOp' = "getProcessedCount"
    /\ UNCHANGED <<daemonVars, workerVars, gitVars, configVars, historyVars,
                   loopVars>>
    /\ UNCHANGED <<marked, cleared, markCalls, branchVars>>
    /\ UNCHANGED extVars

PollerNext ==
    \/ CallGetNextTicket
    \/ CallMarkProcessed
    \/ CallClearProcessed
    \/ CallGetProcessedCount

PollerSpec == Init /\ [][PollerNext]_vars

\* ------------------------------------------- the GitHubClient used directly
\* The git methods of GitHubClient called in any order on a repository whose
\* origin is reachable: every git command does what git does in the state it
\* finds, and fails only where git itself refuses.

\* getBranchExists: `git rev-parse --verify name` succeeds iff the branch exists.
GetBranchExists(local) == local

\* if (branchExists) { git branch -D name }
DeleteLocal_Skipped(exists, local) == local

DeleteLocal(exists, local) == IF exists THEN FALSE ELSE local

\* try { git push origin --delete name } catch {}: deletes the branch on
\* origin when it is there; fails, ignored, when it is not.
DeleteRemote(remote) == FALSE

\* `git checkout -b name` refuses when the branch exists.
CheckoutNew(local) == IF local THEN "already exists" ELSE "created"

\* await github.createBranch(name, base): checkout base, pull, delete the
\* local branch if it exists, try to delete the remote one, checkout -b.
CallCreateBranch ==
    LET local1 == DeleteLocal(GetBranchExists(localBranch), localBranch)
        remote1 == DeleteRemote(remoteBranch)
        end == CheckoutNew(local1)
    IN /\ before' = [op |-> lastOp, local |-> localBranch, remote |-> remoteBranch]
       /\ branchOutcome' = end
       /\ head' = IF end = "created" THEN Feature ELSE Base
       /\ localBranch' = IF end = "created" THEN TRUE ELSE local1
       /\ remoteBranch' = remote1
       /\ ahead' = IF end = "created" THEN FALSE ELSE ahead
       /\ lastOp' = "createBranch"
       /\ UNCHANGED <<daemonVars, workerVars, dirty, configVars, historyVars,
                      loopVars, pollerUseVars, extVars>>

\* Files of the working tree are edited (what the agent does between the calls).
EditFiles ==
    /\ ~dirty
    /\ dirty' = TRUE
    /\ lastOp' = "edit"
    /\ UNCHANGED <<daemonVars, workerVars, head, ahead, configVars, historyVars,
                   loopVars, pollerUseVars, branchVars, extVars>>

\* await github.commitChanges(message): git add -A; git commit, which refuses
\* when there is nothing to commit.
CallCommitChanges ==
    /\ dirty
    /\ dirty' = FALSE
    /\ ahead' = IF head = Feature THEN TRUE ELSE ahead
    /\ lastOp' = "commitChanges"
    /\ UNCHANGED <<daemonVars, workerVars, head, configVars, historyVars,
                   loopVars, pollerUseVars, branchVars, extVars>>

\* await github.pushBranch(name): git push -u origin name, which refuses when
\* there is no such local branch.
CallPushBranch ==
    /\ localBranch
    /\ remoteBranch' = TRUE
    /\ lastOp' = "pushBranch"
    /\ UNCHANGED <<daemonVars, workerVars, gitVars, configVars, historyVars,
                   loopVars, pollerUseVars>>
    /\ UNCHANGED <<localBranch, branchOutcome, before>>
    /\ UNCHANGED extVars

\* await github.checkoutBranch(base)
CallCheckoutBase ==
    /\ head # Base
    /\ head' = Base
    /\ lastOp' = "checkoutBranch"
    /\ UNCHANGED <<daemonVars, workerVars, dirty, ahead, configVars, historyVars,
                   loopVars, pollerUseVars, branchVars, extVars>>

BranchNext ==
    \/ CallCreateBranch
    \/ EditFiles
    \/ CallCommitChanges
    \/ CallPushBranch
    \/ CallCheckoutBase

BranchSpec == Init /\ [][BranchNext]_vars

\* ---------------------------------------------------------------------------
\* JiraClient.transitionTicket on its own
\* ---------------------------------------------------------------------------

\* Largest number of transitions the tracker offers for a ticket.
MaxTransitions == 2

\* Lists getTransitions can return: {id, name} per transition, ids distinct.
TransitionLists ==
    UNION {[1..n -> Names] : n \in 0..MaxTransitions}

WithIds(names) == [i \in DOMAIN names |-> [id |-> i, name |-> names[i]]]

\* t.name.toLowerCase() === statusName.toLowerCase()
SameName_Exact(a, b) == a = b

SameName(a, b) == ToLowerCase(a) = ToLowerCase(b)

\* transitions.find(...): the first element the predicate accepts.
Find(ts, s) ==
    LET accepted == {i \in DOMAIN ts : SameName(ts[i].name, s)}
    IN  IF accepted = {} THEN 0
        ELSE CHOOSE i \in accepted : \A j \in accepted : i <= j

\* new Error(`Transition "${statusName}" not found. Available: ${available}`)
\* with available = transitions.map(t => t.name).join(', ')
NotFound(s, ts) ==
    [kind |-> "not found", requested |-> <<s>>,
     available |-> [i \in DOMAIN ts |-> ts[i].name]]

otherThanJira ==
    <<coreVars, trackerVars, hostVars, sanitizeVars, agentVars, commandVars,
      laterVars>>

\* transitionTicket(ticketKey, statusName) is entered.
CallTransitionTicket ==
    /\ jpc \in {"idle", "done"}
    /\ \E s \in Names : statusName' = s
    /\ jpc' = "get"
    /\ transitions' = <<>>
    /\ transition' = 0
    /\ posted' = <<>>
    /\ thrown' = NoError
    /\ UNCHANGED otherThanJira

\* const transitions = await this.getTransitions(ticketKey);
GetTransitions ==
    /\ jpc = "get"
    /\ \E ok \in BOOLEAN, names \in TransitionLists :
          IF ok THEN /\ transitions' = WithIds(names)
                     /\ jpc' = "find"
                     /\ UNCHANGED thrown
                ELSE /\ thrown' = RequestFailed("get failed")
                     /\ jpc' = "done"
                     /\ UNCHANGED transitions
    /\ UNCHANGED <<statusName, transition, posted>>
    /\ UNCHANGED otherThanJira

\* const transition = transitions.find(...); if (!transition) { throw ... }
FindTransition ==
    /\ jpc = "find"
    /\ transition' = Find(transitions, statusName)
    /\ IF transition' = 0
          THEN /\ thrown' = NotFound(statusName, transitions)
               /\ jpc' = "done"
          ELSE /\ jpc' = "post"
               /\ UNCHANGED thrown
    /\ UNCHANGED <<statusName, transitions, posted>>
    /\ UNCHANGED otherThanJira

\* await this.client.post(`/issue/${ticketKey}/transitions`,
\*                        { transition: { id: transition.id } });
PostTransition ==
    /\ jpc = "post"
    /\ posted' = Append(posted, transitions[transition].id)
    /\ \E ok \in BOOLEAN :
          thrown' = IF ok THEN NoError ELSE RequestFailed("post failed")
    /\ jpc' = "done"
    /\ UNCHANGED <<statusName, transitions, transition>>
    /\ UNCHANGED otherThanJira

JiraNext ==
    \/ CallTransitionTicket
    \/ GetTransitions
    \/ FindTransition
    \/ PostTransition

JiraSpec == Init /\ [][JiraNext]_vars

\* ---------------------------------------------------------------------------
\* Worker.sanitizeForBranch on its own
\* ---------------------------------------------------------------------------

\* .substring(0, 50)
BranchTextLimit == 50

\* Largest number of runs of equal characters in an argument.
MaxRuns == 3

\* Characters, one or two of each kind the method tells apart: lower-case
\* letter, digit, upper-case letter, hyphen, other punctuation or blank.
Chars == {"a", "0", "A", "-", "!"}

\* Arguments are made of runs of one character; a run is short, or just long
\* enough for the text to reach the limit of substring().
RunLengths == {1, BranchTextLimit - 1}

Runs == [char : Chars, length : RunLengths]

RECURSIVE Expand(_)
Expand(runs) ==
    IF runs = <<>> THEN <<>>
    ELSE [i \in 1..Head(runs).length |-> Head(runs).char] \o Expand(Tail(runs))

Texts == {Expand(runs) : runs \in UNION {[1..n -> Runs] : n \in 0..MaxRuns}}

\* .toLowerCase()
LowerCased(t) == [i \in DOMAIN t |-> IF t[i] = "A" THEN "a" ELSE t[i]]

\* [a-z0-9]
IsLowerAlnum(c) == c \in {"a", "0"}

\* .replace(/[^a-z0-9]+/g, '-'): every maximal run of other characters
\* becomes one hyphen.
HyphenateOthers(t) ==
    LET at(i) == [char |-> IF IsLowerAlnum(t[i]) THEN t[i] ELSE "-",
                  keep |-> \/ IsLowerAlnum(t[i])
                           \/ i = 1
                           \/ IsLowerAlnum(t[i - 1])]
        kept == SelectSeq([i \in DOMAIN t |-> at(i)], LAMBDA e : e.keep)
    IN  [i \in DOMAIN kept |-> kept[i].char]

\* .replace(/^-|-$/g, ''): one hyphen off the start and one off the end.
TrimHyphens(t) ==
    LET a == IF t # <<>> /\ Head(t) = "-" THEN Tail(t) ELSE t
    IN  IF a # <<>> /\ a[Len(a)] = "-" THEN SubSeq(a, 1, Len(a) - 1) ELSE a

\* .substring(0, n)
Substring(t, n) == SubSeq(t, 1, Min(Len(t), n))

SanitizeForBranch(t) ==
    Substring(TrimHyphens(HyphenateOthers(LowerCased(t))), BranchTextLimit)

\* this.sanitizeForBranch(ticket.summary)
CallSanitizeForBranch ==
    /\ spc = "idle"
    /\ \E t \in Texts : text' = t
    /\ spc' = "called"
    /\ UNCHANGED sanitized
    /\ UNCHANGED <<coreVars, trackerVars, hostVars, jiraVars, agentVars,
                   commandVars, laterVars>>

\* return text.toLowerCase().replace(...).replace(...).substring(0, 50);
ReturnSanitized ==
    /\ spc = "called"
    /\ sanitized' = SanitizeForBranch(text)
    /\ spc' = "returned"
    /\ UNCHANGED text
    /\ UNCHANGED <<coreVars, trackerVars, hostVars, jiraVars, agentVars,
                   commandVars, laterVars>>

SanitizeNext ==
    \/ CallSanitizeForBranch
    \/ ReturnSanitized

SanitizeSpec == Init /\ [][SanitizeNext]_vars

\* ---------------------------------------------------------------------------
\* The work command: workCommand -> Worker.processTicket -> ClaudeClient.runClaude
\* ---------------------------------------------------------------------------
\* Texts are sequences of words. The empty text is <<>>.

\* What the subprocess can have written to standard error.
StderrTexts == {<<>>, <<"stderr text">>}

\* `Claude exited with code ${code}`
ExitMessage(c) == <<"Claude exited with code", c>>

\* err.message of the 'error' event of a failed spawn.
SpawnErrorMessage == <<"spawn claude ENOENT">>

\* a || b on strings: the empty string is falsy.
OrElse(a, b) == IF a # <<>> THEN a ELSE b

\* error: stderr || `Claude exited with code ${code}`
CloseError_StderrOnly(err, c) == err

CloseError(err, c) == OrElse(err, ExitMessage(c))

\* The 'close' handler: if (code === 0) resolve({ success: true, ... })
\* else resolve({ success: false, ..., error: ... })
CloseResult(c, err) ==
    IF c = "0" THEN [success |-> TRUE, error |-> <<>>]
    ELSE [success |-> FALSE, error |-> CloseError(err, c)]

\* new Error(`Claude Code failed: ${claudeResult.error}`)
ClaudeFailed(err) == <<"Claude Code failed:">> \o err

\* clearTimeout(timeout) stops the timer if it has not fired.
Cleared(t) == IF t = "pending" THEN "cleared" ELSE t

otherThanAgent ==
    <<daemonVars, configVars, historyVars, loopVars, apiVars, trackerVars,
      hostVars, jiraVars, sanitizeVars, commandVars, laterVars>>

\* const childProcess = spawn('claude', args, ...); the handlers are attached
\* and the timeout timer is set.  A failed spawn is reported by 'error'.
SpawnClaude ==
    /\ wpc = "agent"
    /\ apc = "none"
    /\ \E spawned \in BOOLEAN, t \in {"die", "ignore"} :
          /\ child' = IF spawned THEN "running" ELSE "failed"
          /\ onTerm' = t
    /\ apc' = "pending"
    /\ agentTimer' = "pending"
    /\ UNCHANGED <<killed, signals, killTimer, code, stderr, claudeResult>>
    /\ UNCHANGED <<workerVars, gitVars, otherThanAgent>>

\* childProcess.on('error', ...): clearTimeout(timeout); resolve with
\* success false and err.message.
SpawnError ==
    /\ apc = "pending"
    /\ child = "failed"
    /\ agentTimer' = Cleared(agentTimer)
    /\ claudeResult' = [success |-> FALSE, error |-> SpawnErrorMessage]
    /\ apc' = "resolved"
    /\ UNCHANGED <<child, onTerm, killed, signals, killTimer, code, stderr>>
    /\ UNCHANGED <<workerVars, gitVars, otherThanAgent>>

\* The subprocess ends on its own, with exit code 0 or not, having edited
\* and committed what it did and written what it wrote to standard error.
ChildExits ==
    /\ child = "running"
    /\ \E c \in {"0", "1"}, edited \in BOOLEAN, committed \in BOOLEAN,
          err \in StderrTexts :
          /\ code' = c
          /\ stderr' = err
          /\ dirty' = (dirty \/ edited)
          /\ ahead' = (ahead \/ committed)
    /\ child' = "exited"
    /\ UNCHANGED head
    /\ UNCHANGED <<apc, onTerm, killed, signals, agentTimer, killTimer,
                   claudeResult>>
    /\ UNCHANGED <<workerVars, otherThanAgent>>

\* A signal ends the subprocess: SIGKILL always, SIGTERM unless the
\* subprocess ignores it.  'close' then reports code null.
Fatal(sig, t) == sig = "SIGKILL" \/ (sig = "SIGTERM" /\ t = "die")

ChildKilled ==
    /\ child = "running"
    /\ \E i \in DOMAIN signals : Fatal(signals[i], onTerm)
    /\ \E edited \in BOOLEAN, committed \in BOOLEAN, err \in StderrTexts :
          /\ stderr' = err
          /\ dirty' = (dirty \/ edited)
          /\ ahead' = (ahead \/ committed)
    /\ code' = "null"
    /\ child' = "exited"
    /\ UNCHANGED head
    /\ UNCHANGED <<apc, onTerm, killed, signals, agentTimer, killTimer,
                   claudeResult>>
    /\ UNCHANGED <<workerVars, otherThanAgent>>

\* childProcess.kill(sig): the signal is sent if the subprocess still runs,
\* and childProcess.killed is set once a signal has been sent; it says
\* nothing about the subprocess having ended.
Kill(sig) ==
    IF child = "running"
       THEN /\ signals' = Append(signals, sig)
            /\ killed' = TRUE
       ELSE UNCHANGED <<signals, killed>>

\* The timeout callback: console.error(`... timed out ...`);
\* childProcess.kill('SIGTERM'); setTimeout(..., 5000)
AgentTimeout ==
    /\ agentTimer = "pending"
    /\ child \in {"running", "exited"}
    /\ agentTimer' = "fired"
    /\ Kill("SIGTERM")
    /\ killTimer' = "pending"
    /\ UNCHANGED <<apc, child, onTerm, code, stderr, claudeResult>>
    /\ UNCHANGED <<workerVars, gitVars, otherThanAgent>>

\* 5000 ms later, if the process still lives:
\* if (!childProcess.killed) childProcess.kill('SIGKILL')
KillTimeout ==
    /\ killTimer = "pending"
    /\ cpc # "exited"              \* process.exit() ends the timers
    /\ killTimer' = "fired"
    /\ IF ~killed THEN Kill("SIGKILL") ELSE UNCHANGED <<signals, killed>>
    /\ UNCHANGED <<apc, child, onTerm, agentTimer, code, stderr, claudeResult>>
    /\ UNCHANGED <<workerVars, gitVars, otherThanAgent>>

\* childProcess.on('close', code => { clearTimeout(timeout); resolve(...) })
ChildCloses ==
    /\ child = "exited"
    /\ apc = "pending"
    /\ child' = "closed"
    /\ agentTimer' = Cleared(agentTimer)
    /\ claudeResult' = CloseResult(code, stderr)
    /\ apc' = "resolved"
    /\ UNCHANGED <<onTerm, killed, signals, killTimer, code, stderr>>
    /\ UNCHANGED <<workerVars, gitVars, otherThanAgent>>

\* const claudeResult = await this.claude.workTicket(...);
\* if (!claudeResult.success) throw new Error(`Claude Code failed: ...`)
WorkTicketResolved ==
    /\ wpc = "agent"
    /\ apc = "resolved"
    /\ Call("agent", claudeResult.success)
    /\ wpc' = AfterAgent(claudeResult.success)
    /\ errorMessage' = IF claudeResult.success THEN errorMessage
                       ELSE ClaudeFailed(claudeResult.error)
    /\ apc' = "done"
    /\ UNCHANGED <<ticketKey, hasUncommitted, hasNewCommits, pr, previewUrl,
                   result, returns, inflight>>
    /\ UNCHANGED <<child, onTerm, killed, signals, agentTimer, killTimer, code,
                   stderr, claudeResult>>
    /\ UNCHANGED <<gitVars, otherThanAgent>>

otherThanCommand ==
    <<daemonVars, gitVars, configVars, historyVars, loopVars, apiVars,
      trackerVars, hostVars, jiraVars, sanitizeVars, agentVars, laterVars>>

\* How loadGlobalConfig, loadProjectConfig and validateConfig can end: a
\* valid configuration, no project configuration, validation errors, or an
\* exception.
ConfigOutcomes == {"ok", "missing", "invalid", "threw"}

\* process.exit(1) after processTicket returned a failure; otherwise the
\* command returns and the process ends with status 0.
ExitCodeAfter_Zero(success) == 0

ExitCodeAfter(success) == IF success THEN 0 ELSE 1

\* Lines 14-34: only a loaded, valid configuration lets the command go on;
\* `!projectConfig`, errors.length > 0 and the catch block all call
\* process.exit(1).
LoadConfig ==
    /\ cpc = "start"
    /\ \E o \in ConfigOutcomes, d \in BOOLEAN :
          /\ configOutcome' = o
          /\ dryRun' = d
          /\ IF o = "ok" THEN cpc' = "loaded" /\ UNCHANGED exitCode
                         ELSE cpc' = "exited" /\ exitCode' = 1
    /\ UNCHANGED <<workerVars, otherThanCommand>>

\* if (options.dryRun) { ...; return; }
DryRun ==
    /\ cpc = "loaded"
    /\ dryRun
    /\ cpc' = "returned"
    /\ UNCHANGED <<configOutcome, dryRun, exitCode>>
    /\ UNCHANGED <<workerVars, otherThanCommand>>

\* worker.processTicket(ticketKey) is entered.
StartProcessTicket ==
    /\ cpc = "loaded"
    /\ ~dryRun
    /\ cpc' = "working"
    /\ wpc' = "fetch"
    /\ ticketKey' = 1
    /\ inflight' = inflight + 1
    /\ UNCHANGED <<hasUncommitted, hasNewCommits, pr, previewUrl, errorMessage,
                   result, returns, calls>>
    /\ UNCHANGED <<configOutcome, dryRun, exitCode>>
    /\ UNCHANGED otherThanCommand

\* const result = await worker.processTicket(ticketKey);
\* if (result.success) { ... } else { ...; process.exit(1); }
ProcessTicketReturned ==
    /\ cpc = "working"
    /\ wpc = "returned"
    /\ exitCode' = ExitCodeAfter(result.success)
    /\ cpc' = IF result.success THEN "returned" ELSE "exited"
    /\ UNCHANGED <<configOutcome, dryRun>>
    /\ UNCHANGED <<workerVars, otherThanCommand>>

\* workCommand has returned: the process ends, with the status it has, once
\* no timer is pending.
ProcessEnds ==
    /\ cpc = "returned"
    /\ agentTimer # "pending"
    /\ killTimer # "pending"
    /\ cpc' = "exited"
    /\ UNCHANGED <<configOutcome, dryRun, exitCode>>
    /\ UNCHANGED <<workerVars, otherThanCommand>>

WorkNext ==
    \/ LoadConfig
    \/ DryRun
    \/ StartProcessTicket
    \/ ProcessTicketReturned
    \/ ProcessEnds
    \/ GetTicket
    \/ DownloadAttachments
    \/ CreateBranch
    \/ SpawnClaude
    \/ SpawnError
    \/ ChildExits
    \/ ChildKilled
    \/ AgentTimeout
    \/ KillTimeout
    \/ ChildCloses
    \/ WorkTicketResolved
    \/ GetStatus
    \/ HasNewCommits
    \/ CommitChanges
    \/ PushBranch
    \/ GetCommitSummary
    \/ CreatePullRequest
    \/ GetDeploymentUrl
    \/ AddComment
    \/ TransitionTicket
    \/ ReturnToBase
    \/ Recover

WorkSpec == Init /\ [][WorkNext]_vars

\* ---------------------------------------------------------------------------
\* GitHubClient.getDeploymentUrl on its own
\* ---------------------------------------------------------------------------

\* Largest deployment.previewTimeout, in seconds.
MaxPreviewTimeout == 11

\* Math.ceil(previewTimeout / 5)
CeilFifth(t) == (t + 4) \div 5

\* One polling attempt: an exec call throws, or no deployment or URL is there
\* yet, or the URL is.
AttemptOutcomes == {"error", "pending", "url"}

\* if (attempt < maxAttempts - 1) { await this.sleep(5000); }
SleepsAfter_Always(a, m) == TRUE

SleepsAfter(a, m) == a < m - 1

otherThanDeploy == <<coreVars, settledVars, starveVars, sleepVars, intervalVars>>

\* this.github.getDeploymentUrl(pr.number, Math.ceil(previewTimeout / 5))
CallGetDeploymentUrl ==
    /\ gpc = "idle"
    /\ \E t \in 0..MaxPreviewTimeout :
          /\ previewTimeout' = t
          /\ maxAttempts' = CeilFifth(t)
    /\ gpc' = "pr"
    /\ UNCHANGED <<attempt, polled, waits, lookup>>
    /\ UNCHANGED otherThanDeploy

\* const pr = await this.getPullRequest(prNumber); outside the try, then
\* for (let attempt = 0; ...
GetPullRequest ==
    /\ gpc = "pr"
    /\ \E ok \in BOOLEAN :
          IF ok THEN gpc' = "loop" /\ UNCHANGED lookup
                ELSE gpc' = "returned" /\ lookup' = "threw"
    /\ attempt' = 0
    /\ UNCHANGED <<previewTimeout, maxAttempts, polled, waits>>
    /\ UNCHANGED otherThanDeploy

\* attempt < maxAttempts, else return null
AttemptTest ==
    /\ gpc = "loop"
    /\ IF attempt < maxAttempts
          THEN gpc' = "attempt" /\ UNCHANGED lookup
          ELSE gpc' = "returned" /\ lookup' = "null"
    /\ UNCHANGED <<previewTimeout, maxAttempts, attempt, polled, waits>>
    /\ UNCHANGED otherThanDeploy

\* The body of the loop up to the sleep: try { ...; return url; } catch { }
PollDeployment ==
    /\ gpc = "attempt"
    /\ \E o \in AttemptOutcomes :
          /\ polled' = Append(polled, o)
          /\ IF o = "url"
                THEN /\ gpc' = "returned"
                     /\ lookup' = "url"
                     /\ UNCHANGED attempt
                ELSE /\ UNCHANGED lookup
                     /\ IF SleepsAfter(attempt, maxAttempts)
                           THEN gpc' = "sleep" /\ UNCHANGED attempt
                           ELSE gpc' = "loop" /\ attempt' = attempt + 1
    /\ UNCHANGED <<previewTimeout, maxAttempts, waits>>
    /\ UNCHANGED otherThanDeploy

\* await this.sleep(5000); attempt++
DeploymentSleep ==
    /\ gpc = "sleep"
    /\ waits' = waits + 1
    /\ attempt' = attempt + 1
    /\ gpc' = "loop"
    /\ UNCHANGED <<previewTimeout, maxAttempts, polled, lookup>>
    /\ UNCHANGED otherThanDeploy

DeployNext ==
    \/ CallGetDeploymentUrl
    \/ GetPullRequest
    \/ AttemptTest
    \/ PollDeployment
    \/ DeploymentSleep

DeploySpec == Init /\ [][DeployNext]_vars

\* ---------------------------------------------------------------------------
\* The poll loop over a candidate list longer than one search batch
\* ---------------------------------------------------------------------------
\* Searches succeed, Worker runs return, no stop is requested.  A ticket
\* leaves the candidate list when its run succeeded (it was transitioned) and
\* stays on it when its run failed.

\* this.jira.searchTickets(jql, 10): the first MaxResults matches in the
\* query's order (ORDER BY priority DESC, created ASC; tickets are numbered by
\* that rank).
SearchBatch(set) ==
    [i \in 1..Min(Cardinality(set), MaxResults) |->
        CHOOSE t \in set : Cardinality({u \in set : u < t}) = i - 1]

otherThanStarve == <<coreVars, settledVars, deployVars, sleepVars, intervalVars>>

\* poll(): getNextTicket, and with a ticket the Worker is started.
QueuePoll ==
    /\ qpc = "search"
    /\ LET next == GetNextTicket(TRUE, SearchBatch(candidates), qprocessed)
       IN /\ qticket' = next
          /\ qpc' = IF next = Null THEN "sleep" ELSE "run"
          /\ served' = IF next = Null THEN served ELSE served \cup {next}
    /\ UNCHANGED <<candidates, qprocessed>>
    /\ UNCHANGED otherThanStarve

\* processTicket returns; this.poller.markProcessed(ticket.key)
QueueRunReturns ==
    /\ qpc = "run"
    /\ \E success \in BOOLEAN :
          candidates' = IF success THEN candidates \ {qticket} ELSE candidates
    /\ qprocessed' = MarkProcessed(qprocessed, qticket)
    /\ qticket' = Null
    /\ qpc' = "sleep"
    /\ UNCHANGED served
    /\ UNCHANGED otherThanStarve

\* The sleep ends and the loop polls again.
QueueSleepEnds ==
    /\ qpc = "sleep"
    /\ qpc' = "search"
    /\ UNCHANGED <<candidates, qprocessed, qticket, served>>
    /\ UNCHANGED otherThanStarve

StarveNext ==
    \/ QueuePoll
    \/ QueueRunReturns
    \/ QueueSleepEnds

StarveSpec == Init /\ [][StarveNext]_vars /\ WF_vars(StarveNext)

\* ---------------------------------------------------------------------------
\* Daemon.sleep: the two timers of every call
\* ---------------------------------------------------------------------------
\* Each call of sleep(ms) creates a setTimeout timer and a setInterval timer.
\* timeouts[i] and intervals[i] are the timers of the i-th call: a timeout is
\* "pending", "fired" or "cleared", an interval is "live" or "cleared".

MaxSleeps == 4

otherThanSleep ==
    <<currentTicket, dpc, ticket, tickets, processedTickets, workerVars,
      gitVars, configVars, historyVars, loopVars, apiVars, settledVars,
      deployVars, starveVars, intervalVars>>

\* The promise of call i is the one the loop awaits.
Awaited(i) == zpc = "sleeping" /\ i = Len(timeouts)

\* start(): this.running = true; the signal handlers are installed.
SleepStart ==
    /\ zpc = "new"
    /\ running' = TRUE
    /\ zpc' = "loop"
    /\ UNCHANGED <<timeouts, intervals>>
    /\ UNCHANGED otherThanSleep

\* while (this.running): poll() is entered, or the loop is left.
SleepLoopTest ==
    /\ zpc = "loop"
    /\ zpc' = IF running THEN "poll" ELSE "stopped"
    /\ UNCHANGED <<running, timeouts, intervals>>
    /\ UNCHANGED otherThanSleep

\* poll() returned; if (this.running) await this.sleep(...): setTimeout and
\* setInterval are called, the promise is pending.
CallSleep ==
    /\ zpc = "poll"
    /\ IF running
       THEN /\ Len(timeouts) < MaxSleeps
            /\ timeouts' = Append(timeouts, "pending")
            /\ intervals' = Append(intervals, "live")
            /\ zpc' = "sleeping"
       ELSE /\ zpc' = "loop"
            /\ UNCHANGED <<timeouts, intervals>>
    /\ UNCHANGED running
    /\ UNCHANGED otherThanSleep

\* The setTimeout timer of call i fires: resolve().  Its interval is not
\* touched.
TimeoutFires ==
    \E i \in DOMAIN timeouts :
        /\ timeouts[i] = "pending"
        /\ timeouts' = [timeouts EXCEPT ![i] = "fired"]
        /\ zpc' = IF Awaited(i) THEN "loop" ELSE zpc
        /\ UNCHANGED <<running, intervals>>
        /\ UNCHANGED otherThanSleep

\* The setInterval callback of call i runs with this.running false:
\* clearTimeout(timeout); clearInterval(checkRunning); resolve().  With
\* this.running true the callback changes nothing.
IntervalTick ==
    \E i \in DOMAIN intervals :
        /\ intervals[i] = "live"
        /\ ~running
        /\ timeouts' = [timeouts EXCEPT
                           ![i] = IF @ = "pending" THEN "cleared" ELSE @]
        /\ intervals' = [intervals EXCEPT ![i] = "cleared"]
        /\ zpc' = IF Awaited(i) THEN "loop" ELSE zpc
        /\ UNCHANGED running
        /\ UNCHANGED otherThanSleep

\* SIGINT or SIGTERM: stop() sets this.running = false.
SleepStop ==
    /\ zpc \notin {"new", "stopped"}
    /\ running
    /\ running' = FALSE
    /\ UNCHANGED <<zpc, timeouts, intervals>>
    /\ UNCHANGED otherThanSleep

SleepNext ==
    \/ SleepStart
    \/ SleepLoopTest
    \/ CallSleep
    \/ TimeoutFires
    \/ IntervalTick
    \/ SleepStop

SleepSpec == Init /\ [][SleepNext]_vars

\* ---------------------------------------------------------------------------
\* The poll interval: startCommand, the Daemon constructor, the sleep argument
\* ---------------------------------------------------------------------------
MaxInterval == 3

DefaultPollInterval == 300

\* options.interval as the command line gives it: absent, the empty string,
\* the text of an integer, or a text parseInt finds no number in.
IntervalOptions ==
    {Undefined, [kind |-> "empty", n |-> 0], [kind |-> "text", n |-> 0]}
        \cup {[kind |-> "digits", n |-> k] : k \in -MaxInterval..MaxInterval}

\* globalConfig.bot.pollInterval: the default, or the number of config.yaml.
BotPollIntervals ==
    {Num(DefaultPollInterval)} \cup {Num(k) : k \in -MaxInterval..MaxInterval}

\* parseInt(s, 10) of a non-empty string.
ParseInt(s) == IF s.kind = "digits" THEN Num(s.n) ELSE NaN

\* options.interval ? parseInt(options.interval, 10) : undefined
ParsedInterval(option) ==
    IF option.kind \in {"undefined", "empty"} THEN Undefined
    ELSE ParseInt(option)

\* The values || skips: undefined, NaN and 0.
Falsy(v) == v.kind \in {"undefined", "NaN"} \/ (v.kind = "number" /\ v.n = 0)

\* a || b
Either(a, b) == IF Falsy(a) THEN b ELSE a

otherThanInterval ==
    <<coreVars, settledVars, deployVars, starveVars, sleepVars>>

\* startCommand: the configuration is loaded and --interval is parsed.
ParseInterval ==
    /\ ipc = "start"
    /\ \E option \in IntervalOptions, bot \in BotPollIntervals :
          /\ interval' = option
          /\ botPollInterval' = bot
          /\ parsed' = ParsedInterval(option)
    /\ ipc' = "parsed"
    /\ UNCHANGED <<pollInterval, sleepMs>>
    /\ UNCHANGED otherThanInterval

\* new Daemon(..., { pollInterval }):
\* options.pollInterval || globalConfig.bot.pollInterval || 300
ConstructDaemon ==
    /\ ipc = "parsed"
    /\ pollInterval' =
          Either(Either(parsed, botPollInterval), Num(DefaultPollInterval))
    /\ ipc' = "constructed"
    /\ UNCHANGED <<interval, botPollInterval, parsed, sleepMs>>
    /\ UNCHANGED otherThanInterval

\* await this.sleep(this.options.pollInterval * 1000)
CallDaemonSleep ==
    /\ ipc = "constructed"
    /\ sleepMs' = Num(pollInterval.n * 1000)
    /\ ipc' = "sleeping"
    /\ UNCHANGED <<interval, botPollInterval, parsed, pollInterval>>
    /\ UNCHANGED otherThanInterval

IntervalNext ==
    \/ ParseInterval
    \/ ConstructDaemon
    \/ CallDaemonSleep

IntervalSpec == Init /\ [][IntervalNext]_vars

\* ------------------------------------------------------------ properties
Rank(step) == CHOOSE i \in 1..Len(StepOrder) : StepOrder[i] = step

LastCall == calls[Len(calls)]

Returned == wpc = "returned"

\* Steps 3..11: the awaited calls from branch creation onward.
FromBranchOnward == TryBlock \ {"fetch", "attach"}

\* C1: processTicket never lets an exception escape. Whatever combination of
\* collaborator calls fails, the call is never left by a throw, it can always
\* take its next step until it has returned, and when it has returned it has
\* returned exactly one WorkResult, which carries the ticket key it was called
\* with.
C1_NeverThrows ==
    /\ wpc # "escaped"
    /\ wpc \notin {"idle", "returned"} => ENABLED WorkerStep
    /\ returns <= 1
    /\ Returned => /\ returns = 1
                   /\ result # NoResult
                   /\ result.ticketKey = ticketKey
                   /\ ticketKey = ticket

\* A run in which a step threw and the recovery checkout threw as well has
\* still returned a result.
C1_Witness ==
    /\ Returned
    /\ ~result.success
    /\ Len(calls) > 1
    /\ LastCall = [step |-> "recover", ok |-> FALSE]

\* C2: the steps of processTicket run strictly in the documented order, and
\* once a step has failed no later step is attempted: every step of the try
\* block that is attempted comes after steps that precede it in the order and
\* that all succeeded. (What the failure handler still does after a failed step,
\* its recovery checkout, is not one of the steps.)
C2_StepsInOrder ==
    \A i, j \in 1..Len(calls) :
        (i < j /\ calls[j].step \in TryBlock) =>
            /\ calls[i].step \in TryBlock
            /\ Rank(calls[i].step) < Rank(calls[j].step)
            /\ calls[i].ok

\* The agent run failed after fetch and branch creation succeeded, and the run
\* has returned having attempted nothing but the recovery afterwards.
C2_Witness ==
    /\ Returned
    /\ \E i \in 1..Len(calls) :
          /\ calls[i] = [step |-> "agent", ok |-> FALSE]
          /\ i >= 3
          /\ Len(calls) = i + 1

\* C3 as stated: whenever a step from branch creation onward threw, the tree is
\* on the base branch when processTicket returns, whatever the recovery
\* checkout did.
C3_AlwaysOnBaseAfterThrow ==
    (Returned /\ result.error \in FromBranchOnward) => head = Base

\* C3 as amended: when a step from branch creation onward threw, the catch
\* block has made exactly one recovery checkout of the base branch, as the last
\* call of the run, and the tree is on the base branch at the return if that
\* checkout succeeded.
C3_OnBaseIfRecoveryCheckoutSucceeds ==
    (Returned /\ result.error \in FromBranchOnward) =>
        /\ LastCall.step = "recover"
        /\ Cardinality({i \in 1..Len(calls) : calls[i].step = "recover"}) = 1
        /\ LastCall.ok => head = Base

\* The push threw on the feature branch and the recovery checkout succeeded.
C3_Witness ==
    /\ Returned
    /\ result.error = "push"
    /\ LastCall = [step |-> "recover", ok |-> TRUE]
    /\ head = Base

\* C4: every failure result, the 'No changes were made' result included, is
\* returned with the working tree back on the base branch. (Runs whose recovery
\* checkout itself threw are the case of C3 and are left aside here.)
C4_EveryFailureOnBase ==
    (Returned /\ ~result.success /\ LastCall # [step |-> "recover", ok |-> FALSE])
        => head = Base

\* C5: when the change detection that follows a successful agent run finds no
\* uncommitted change and no commit beyond base, processTicket returns the
\* failure 'No changes were made'; and a run that returned this result has
\* attempted neither commit, push, PR creation, comment nor transition, and
\* attempts nothing more.
C5_NoChangeDetection ==
    /\ (Len(calls) > 0 /\ LastCall.step = "commits" /\ ~dirty /\ ~ahead) =>
           /\ Returned
           /\ result = FailureResult(ticketKey, NoChangesError)
    /\ (Returned /\ result.error = NoChangesError) =>
           /\ ~result.success
           /\ \A i \in 1..Len(calls) :
                 calls[i].step \notin {"commit", "push", "summary", "pr",
                                       "preview", "comment", "transition"}
           /\ ~ENABLED WorkerStep

\* The agent succeeded, left the tree clean and committed nothing, and the run
\* returned the no-change failure.
C5_Witness ==
    /\ Returned
    /\ result.error = NoChangesError
    /\ calls[Len(calls) - 2] = [step |-> "agent", ok |-> TRUE]
    /\ ~dirty
    /\ ~ahead

\* C6: a WorkResult with success=true is returned only after the step-11
\* checkout of the base branch was made, as the last call of the run, and
\* succeeded; the tree is then on the base branch.
C6_SuccessOnBase ==
    (Returned /\ result.success) =>
        /\ LastCall = [step |-> "checkout", ok |-> TRUE]
        /\ head = Base

\* A run returned success with its pull request.
C6_Witness ==
    /\ Returned
    /\ result.success
    /\ result.pr

\* C7: within one daemon, a ticket whose Worker run has returned, with success
\* or with failure, is in the processed set, and no ticket is dispatched to a
\* Worker more than once.
C7_DispatchedOnce ==
    \A k \in Keys :
        /\ dispatched[k] <= 1
        /\ outcome[k] # "none" => k \in processedTickets /\ dispatched[k] = 1

\* The tracker returns, first in its batch, a ticket whose run already
\* succeeded.
C7_Witness ==
    /\ dpc = "found"
    /\ Len(tickets) > 0
    /\ outcome[tickets[1]] = "success"

\* C8 as stated: a ticket whose run failed and which the search still returns
\* (here: first in the batch) is picked up again by that poll.
C8_FailedTicketPickedUpAgain ==
    (dpc = "found" /\ Len(tickets) > 0 /\ outcome[tickets[1]] = "failure") =>
        GetNextTicket(TRUE, tickets, processedTickets) = tickets[1]

\* C8 as amended: a ticket whose run failed is never picked up again by a later
\* poll of the same daemon, although the search still returns it.
C8_FailedTicketNotPickedUpAgain ==
    dpc = "found" =>
        \A k \in Keys :
            outcome[k] = "failure" =>
                GetNextTicket(TRUE, tickets, processedTickets) # k

\* The tracker returns, first in its batch, a ticket whose run failed.
C8_Witness ==
    /\ dpc = "found"
    /\ Len(tickets) > 0
    /\ outcome[tickets[1]] = "failure"

\* C9: dispatch is strictly sequential. At most one processTicket call is in
\* flight, at most one search is in flight, and no getNextTicket call is under
\* way while a processTicket call has not returned.
C9_Sequential ==
    /\ inflight \in {0, 1}
    /\ searches \in {0, 1}
    /\ dpc \in {"search", "found"} => inflight = 0
    /\ inflight = 1 => dpc = "working" /\ wpc \notin {"idle", "returned"}

\* A search is in flight after an earlier poll dispatched a ticket.
C9_Witness ==
    /\ dpc = "search"
    /\ searches = 1
    /\ \E k \in Keys : dispatched[k] = 1

\* C10: a failed Worker run does not end the loop. When processTicket has
\* returned a failure, poll() returns without touching the running flag; and
\* from there on, as after any poll, the loop sleeps while running is set, the
\* sleep leads back to the loop test, and the loop test starts the next poll
\* while running is set; none of these steps is ever blocked (the loop test
\* within the MaxPolls iterations that are explored).
C10_FailureDoesNotStopLoop ==
    /\ [][ /\ (dpc = "working" /\ Returned /\ ~result.success /\ dpc' # dpc) =>
                  (dpc' = "polled" /\ running' = running)
           /\ (dpc = "polled" /\ running /\ dpc' # dpc) => dpc' = "sleeping"
           /\ (dpc = "sleeping" /\ dpc' # dpc) => dpc' = "loop"
           /\ (dpc = "loop" /\ running /\ dpc' # dpc) => dpc' = "search"
         ]_vars
    /\ [](dpc = "working" /\ Returned => ENABLED WorkerDone)
    /\ [](dpc = "polled" => ENABLED AfterPoll)
    /\ [](dpc = "sleeping" => ENABLED SleepTimeout)
    /\ [](dpc = "loop" /\ polls < MaxPolls => ENABLED LoopTest)

\* The daemon, still running, polls again after a run that failed.
C10_Witness ==
    /\ dpc = "search"
    /\ running
    /\ \E k \in Keys : outcome[k] = "failure"

\* C11: a stop() that arrives while a Worker run is in flight changes nothing
\* but the flag (and its own log): the run is not interrupted, it keeps taking
\* its remaining steps, and when it has returned its ticket is marked processed
\* and currentTicket is cleared; after that the loop goes from the returned
\* poll() to the loop test without sleeping, and from the loop test out of
\* start() without another poll or search.
C11_StopDuringRun ==
    /\ [][ /\ (stopReport' # stopReport /\ inflight = 1) =>
                  UNCHANGED <<workerVars, gitVars, dpc, ticket, currentTicket,
                              processedTickets, historyVars>>
           /\ (~running /\ dpc = "working" /\ dpc' # dpc) =>
                  /\ dpc' = "polled"
                  /\ ticket \in processedTickets'
                  /\ currentTicket' = Null
           /\ (~running /\ dpc = "polled" /\ dpc' # dpc) => dpc' = "loop"
           /\ (~running /\ dpc = "loop" /\ dpc' # dpc) =>
                  dpc' = "stopped" /\ polls' = polls /\ searches' = searches
           /\ dpc = "stopped" =>
                  dpc' = "stopped" /\ polls' = polls /\ searches' = searches
         ]_vars
    /\ [](~running /\ dpc = "working" /\ ~Returned => ENABLED WorkerStep)
    /\ [](~running /\ dpc = "working" /\ Returned => ENABLED WorkerDone)
    /\ [](~running /\ dpc = "polled" => ENABLED AfterPoll)
    /\ [](~running /\ dpc = "loop" => ENABLED LoopTest)

\* start() has returned after a single stop() that was logged as arriving
\* during the run of a ticket; that run was completed and recorded.
C11_Witness ==
    /\ dpc = "stopped"
    /\ \E k \in Keys : /\ stopReport = <<k>>
                       /\ outcome[k] # "none"
                       /\ k \in processedTickets

\* C12: currentTicket is the key of the ticket being worked on while a Worker
\* run is in flight, after a success as after a failure, and null in every
\* state in which the daemon is searching, sleeping, between polls or has left
\* start(); the only state with a set currentTicket and no run in flight is the
\* continuation of poll() that the Worker's return resumes, which no callback
\* can observe. Hence every stop() logs 'currently working on <key>' exactly
\* when a Worker run is in flight at that moment, naming that run's ticket.
C12_CurrentTicketTracksRun ==
    /\ [](inflight = 1 => currentTicket \in Keys /\ currentTicket = ticketKey)
    /\ [](dpc # "working" => currentTicket = Null)
    /\ [](inflight = 0 /\ currentTicket # Null =>
              dpc = "working" /\ Returned /\ ~ENABLED Stop)
    /\ [][(running /\ ~running') \/ stopReport' # stopReport =>
              stopReport' = IF inflight = 1 THEN <<ticketKey>> ELSE <<Null>>]_vars

\* A stop() has just reported the ticket of the run that is in flight.
C12_Witness ==
    /\ ~running
    /\ inflight = 1
    /\ dpc = "working"
    /\ stopReport = <<ticketKey>>
    /\ \E k \in Keys : outcome[k] = "failure"

\* C13: the running flag goes from true to false only in a stop() call, and
\* from false to true only in start() before any stop(); once a stop() has
\* been called it is false for good, whatever further stop() calls follow, and
\* start() returns only after it has been cleared.
C13_RunningClearedOnce ==
    /\ [][ /\ (running /\ ~running') =>
                  /\ stopReport' = StopMessage(currentTicket)
                  /\ UNCHANGED <<dpc, wpc, currentTicket, processedTickets>>
           /\ (~running /\ running') => (dpc = "new" /\ stopReport = <<>>)
         ]_vars
    /\ [](stopReport # <<>> => ~running)
    /\ [](dpc = "stopped" => ~running /\ stopReport # <<>>)

\* stop() has cleared the flag while a search was in flight and the daemon has
\* gone on to a Worker run, during which further stop() calls can arrive.
C13_Witness ==
    /\ ~running
    /\ stopReport = <<Null>>
    /\ dpc = "working"
    /\ ENABLED Stop

\* C14: when the flag is cleared during the sleep between polls, the sleep can
\* end by the interval's check alone, without the poll-interval timer firing;
\* a sleep ended that way has cancelled its timer, which never fires later,
\* and no sleep leaves its timer armed.
C14_SleepEndsOnStop ==
    /\ [](dpc = "sleeping" /\ ~running => ENABLED SleepInterrupted)
    /\ [][ /\ (dpc = "sleeping" /\ dpc' # dpc) =>
                  /\ dpc' = "loop"
                  /\ timer' \in {"fired", "cleared"}
                  /\ timer' = "cleared" => ~running
           /\ timer = "cleared" => timer' # "fired"
         ]_vars
    /\ [](dpc # "sleeping" => timer # "pending")

\* A sleep was ended by the check, with its timer cancelled.
C14_Witness ==
    /\ dpc = "loop"
    /\ ~running
    /\ timer = "cleared"

\* Every step of the daemon and of the Worker run it awaits; stop() is the
\* only step that is not one of them.
Progress ==
    \/ LoopTest
    \/ SearchReturns
    \/ SearchFails
    \/ Dispatch
    \/ WorkerStep
    \/ WorkerDone
    \/ AfterPoll
    \/ SleepTimeout
    \/ SleepInterrupted

\* The scheduling the liveness claims rely on: the event loop resumes the
\* continuation that is ready, the awaited call of the Worker or the search
\* that is in flight completes, and the timers of sleep() fire. The daemon
\* awaits one thing at a time, so one fairness condition covers them all.
Fairness == WF_vars(Progress)

FairSpec == Spec /\ Fairness

\* C15: once stop() has been called, start() eventually returns, wherever the
\* daemon was (searching, working, sleeping) when the call arrived.
C15_StartReturnsAfterStop == (stopReport # <<>>) ~> (dpc = "stopped")

\* start() has returned after a stop() that arrived during a sleep.
C15_Witness ==
    /\ dpc = "stopped"
    /\ stopReport = <<Null>>
    /\ timer = "cleared"

\* C19: a search that fails ends in getNextTicket: poll() gets null, the
\* processed set is left as it was, no Worker is started and currentTicket
\* stays null; from there the daemon goes on as after any poll without a
\* ticket: it sleeps while running is set and the loop test then polls again.
C19_SearchFailureIsNoTicket ==
    /\ [][ /\ (dpc = "search" /\ lastSearch' = "failed") =>
                  /\ dpc' = "polled"
                  /\ ticket' = Null
                  /\ currentTicket' = Null
                  /\ processedTickets' = processedTickets
                  /\ UNCHANGED workerVars
           /\ (lastSearch = "failed" /\ running /\ dpc = "polled" /\ dpc' # dpc) =>
                  dpc' = "sleeping"
           /\ (lastSearch = "failed" /\ running /\ dpc = "loop" /\ dpc' # dpc) =>
                  dpc' = "search" /\ polls' = polls + 1
         ]_vars
    /\ [](lastSearch = "failed" =>
              /\ dpc \in {"polled", "sleeping", "loop", "stopped"}
              /\ inflight = 0
              /\ wpc = "idle"
              /\ currentTicket = Null)
    /\ [](lastSearch = "failed" /\ dpc = "polled" => ENABLED AfterPoll)
    /\ [](lastSearch = "failed" /\ dpc = "loop" /\ polls < MaxPolls =>
              ENABLED LoopTest)

\* The daemon sleeps after a failed search, with the tickets it had processed
\* before still in the processed set.
C19_Witness ==
    /\ lastSearch = "failed"
    /\ dpc = "sleeping"
    /\ running
    /\ processedTickets # {}

\* C16: with a tracker that answers every search with the same single ticket,
\* getNextTicket returns null exactly while that ticket's key has been marked
\* processed and not cleared since: null from markProcessed(key) on, and the
\* ticket again once clearProcessed() has been called.
C16_DedupUntilCleared ==
    [](lastOp = "getNextTicket" /\ Len(tickets) = 1 =>
           IF tickets[1] \in marked THEN ticket = Null ELSE ticket = tickets[1])

\* The only ticket of the search is returned again after a clearProcessed()
\* that removed its key.
C16_Witness ==
    /\ lastOp = "getNextTicket"
    /\ Len(tickets) = 1
    /\ ticket = tickets[1]
    /\ ticket \in cleared
    /\ marked # {}

\* C17: no call but clearProcessed() removes a key from the processed set, be
\* it getNextTicket (also with a failing search), markProcessed or
\* getProcessedCount; clearProcessed() empties it; the set holds exactly the
\* keys marked since the last clear, however often each was marked, and
\* getProcessedCount() returns their number.
C17_ProcessedOnlyGrows ==
    /\ [][ /\ lastOp' # "clearProcessed" => processedTickets \subseteq processedTickets'
           /\ lastOp' = "clearProcessed" => processedTickets' = {}
         ]_vars
    /\ [](processedTickets = marked)
    /\ [](lastOp = "getProcessedCount" => processedCount = Cardinality(marked))

\* getProcessedCount() returns 1 after more than one markProcessed call.
C17_Witness ==
    /\ lastOp = "getProcessedCount"
    /\ processedCount = 1
    /\ markCalls > 1

\* C18: getNextTicket returns the first ticket of the fetched batch, in the
\* tracker's order, whose key is not in the processed set, and null only when
\* the batch holds no such ticket (every ticket of it is processed, it is
\* empty, or the search failed and nothing was fetched).
C18_FirstUnprocessed ==
    [](lastOp \in {"getNextTicket", "getNextTicket failed"} =>
           IF \E i \in 1..Len(tickets) : tickets[i] \notin processedTickets
              THEN \E i \in 1..Len(tickets) :
                      /\ ticket = tickets[i]
                      /\ tickets[i] \notin processedTickets
                      /\ \A j \in 1..(i - 1) : tickets[j] \in processedTickets
              ELSE ticket = Null)

\* The first ticket of the batch was skipped as processed and the second one
\* returned.
C18_Witness ==
    /\ lastOp = "getNextTicket"
    /\ Len(tickets) >= 2
    /\ tickets[1] \in processedTickets
    /\ ticket = tickets[2]

CallsOf(step) == {i \in DOMAIN calls : calls[i].step = step}

\* The operations a processTicket call makes on its collaborators by name.
NamedOperations ==
    {"fetch", "branch", "agent", "commit", "push", "pr", "comment", "transition"}

\* C29: within one processTicket call each of getTicket, createBranch, the
\* agent run, commitChanges, pushBranch, createPullRequest, addComment and
\* transitionTicket is called at most once, and a call that failed is followed
\* by nothing but the recovery checkout.
C29_EachOperationAtMostOnce ==
    /\ \A step \in NamedOperations : Cardinality(CallsOf(step)) <= 1
    /\ \A i \in DOMAIN calls :
          (~calls[i].ok /\ calls[i].step \in TryBlock) =>
              \A j \in DOMAIN calls : j > i => calls[j].step = "recover"

\* A run has returned after its push failed: pushBranch was called once.
C29_Witness ==
    /\ Returned
    /\ \E i \in CallsOf("push") : ~calls[i].ok
    /\ Cardinality(CallsOf("commit")) = 1

\* C30: once the change detection has found changes, commitChanges is called
\* if and only if the working tree had staged, unstaged or untracked changes
\* (hasUncommitted, which is what the tree held when it was inspected), and
\* it is called right after the detection; when the only changes are commits
\* the agent made, the call after the detection is pushBranch.
C30_CommitIffUncommitted ==
    /\ wpc \in {"commits", "commit"} => hasUncommitted = dirty
    /\ CallsOf("commit") # {} => hasUncommitted
    /\ \A i \in CallsOf("commits") :
          /\ (hasUncommitted /\ wpc # "commit") => i + 1 \in CallsOf("commit")
          /\ (~hasUncommitted /\ hasNewCommits /\ i < Len(calls)) =>
                 i + 1 \in CallsOf("push")
          /\ (~hasUncommitted /\ hasNewCommits /\ i = Len(calls)) => wpc = "push"

\* A run succeeded on commits the agent had made, without a commit of its own.
C30_Witness ==
    /\ Returned
    /\ result.success
    /\ ~hasUncommitted
    /\ hasNewCommits
    /\ CallsOf("commit") = {}
    /\ CallsOf("push") # {}

\* C24: with preview waiting enabled, a deployment lookup that ends without a
\* URL does not fail the run: the Worker goes on to the comment, the comment
\* has no preview line, the transition is still requested when configured, and
\* the success result carries no previewUrl.  With waitForPreview false the
\* deployment is never polled.
C24_NoPreviewIsNotFailure ==
    /\ ~waitForPreview =>
          CallsOf("preview") = {} /\ deployment = "none" /\ ~previewUrl
    /\ deployment = "null" =>
          /\ waitForPreview /\ ~previewUrl
          /\ \A i \in CallsOf("preview") :
                /\ calls[i].ok
                /\ IF i = Len(calls) THEN wpc = "comment"
                                     ELSE calls[i + 1].step = "comment"
                /\ (i + 1 \in CallsOf("comment") /\ calls[i + 1].ok) =>
                      /\ comment.posted /\ ~comment.preview
                      /\ IF onPrCreated
                            THEN IF i + 1 = Len(calls)
                                    THEN wpc = "transition"
                                    ELSE calls[i + 2].step = "transition"
                            ELSE CallsOf("transition") = {}
          /\ Returned => result.error # "preview"
          /\ (Returned /\ result.success) => ~result.previewUrl

C24_Witness ==
    /\ Returned /\ result.success /\ waitForPreview /\ onPrCreated
    /\ deployment = "null"
    /\ ~result.previewUrl /\ comment.posted /\ ~comment.preview
    /\ CallsOf("transition") # {}

\* C25: in a run that ends in success with a pull request, exactly one comment
\* was posted, after the pull request was created; it holds the PR URL, and the
\* preview URL exactly when one was found; the transition was requested exactly
\* once, after the comment, if onPrCreated is set and never otherwise; and the
\* result carries the pull request, and the preview URL exactly when found.
C25_HappyPathCommentAndTransition ==
    (Returned /\ result.success /\ result.pr) =>
        /\ Cardinality(CallsOf("comment")) = 1
        /\ Cardinality(CallsOf("pr")) = 1
        /\ \A i \in CallsOf("pr") : \A j \in CallsOf("comment") : i < j
        /\ comment = [posted |-> TRUE, prUrl |-> TRUE, preview |-> previewUrl]
        /\ previewUrl => \E i \in CallsOf("preview") : calls[i].ok
        /\ Cardinality(CallsOf("transition")) = IF onPrCreated THEN 1 ELSE 0
        /\ \A i \in CallsOf("comment") : \A j \in CallsOf("transition") : i < j
        /\ result.previewUrl = previewUrl

C25_Witness ==
    /\ Returned /\ result.success /\ result.pr /\ result.previewUrl
    /\ onPrCreated /\ comment.preview /\ comment.prUrl
    /\ CallsOf("transition") # {}

\* C26: once transitionTicket has the ticket's transitions, it selects the
\* first one whose name equals statusName when case is ignored and sends one
\* request with that transition's id; if no name matches it throws an error
\* naming the requested transition and listing the available names, and sends
\* no transition request.
C26_FirstCaseInsensitiveMatch ==
    LET matching == {i \in DOMAIN transitions :
                        transitions[i].name.word = statusName.word}
    IN  (jpc \in {"post", "done"} /\ thrown.kind # "get failed") =>
            IF matching = {}
               THEN /\ jpc = "done"
                    /\ thrown.kind = "not found"
                    /\ thrown.requested = <<statusName>>
                    /\ thrown.available =
                          [i \in DOMAIN transitions |-> transitions[i].name]
                    /\ posted = <<>>
               ELSE /\ transition \in matching
                    /\ \A j \in matching : transition <= j
                    /\ thrown.kind # "not found"
                    /\ posted = IF jpc = "done"
                                   THEN <<transitions[transition].id>>
                                   ELSE <<>>

C26_Witness ==
    /\ jpc = "done" /\ Len(transitions) = 2
    /\ transitions[1].name.word # statusName.word
    /\ transitions[2].name.word = statusName.word
    /\ transitions[2].name # statusName
    /\ posted = <<2>>

\* C27: what sanitizeForBranch returns has at most 50 characters, all of them
\* lower-case letters, digits or hyphens, no two hyphens in a row, and no
\* hyphen at its start or end.
C27_SanitizedForm ==
    spc = "returned" =>
    /\ Len(sanitized) <= BranchTextLimit
    /\ \A i \in DOMAIN sanitized : sanitized[i] \in {"a", "0", "-"}
    /\ \A i \in DOMAIN sanitized :
          (i > 1 /\ sanitized[i] = "-") => sanitized[i - 1] # "-"
    /\ sanitized # <<>> =>
          Head(sanitized) # "-" /\ sanitized[Len(sanitized)] # "-"

\* C21: when the timeout fires while the subprocess runs, SIGTERM is sent to
\* it; and when the 5 second grace period ends while the subprocess still
\* runs, SIGKILL is sent to it, so that a subprocess ignoring SIGTERM is
\* forcibly killed.
Sent(sig, sigs) == \E i \in DOMAIN sigs : sigs[i] = sig

C21_ForcedKillAfterGrace ==
    [][/\ (agentTimer = "pending" /\ agentTimer' = "fired"
              /\ child = "running") => Sent("SIGTERM", signals')
       /\ (killTimer = "pending" /\ killTimer' = "fired"
              /\ child = "running") => Sent("SIGKILL", signals')]_vars

\* C22: when processTicket has returned from a run whose agent timeout fired
\* on the running subprocess, the result is a failure of the agent step whose error message mentions
\* the timeout, and the subprocess has ended.
C22_TimeoutReported ==
    (Returned /\ agentTimer = "fired" /\ Sent("SIGTERM", signals)) =>
        /\ child = "closed"
        /\ ~result.success
        /\ \E i \in CallsOf("agent") : ~calls[i].ok
        /\ \E i \in DOMAIN result.error : result.error[i] = "timed out"

\* C23: runClaude resolves with success exactly when the subprocess closed
\* with exit code 0; otherwise it resolves with a non-empty error text: the
\* message of the spawn error, or the captured standard error, or, with
\* nothing captured, the exit-code message.  processTicket then returns a
\* failure whose error carries that text after 'Claude Code failed:'.
C23_AgentSuccessIffExitZero ==
    /\ apc \in {"resolved", "done"} =>
          /\ claudeResult.success = (child = "closed" /\ code = "0")
          /\ ~claudeResult.success =>
                /\ claudeResult.error # <<>>
                /\ claudeResult.error =
                      IF child = "failed" THEN <<"spawn claude ENOENT">>
                      ELSE IF stderr # <<>> THEN stderr
                      ELSE <<"Claude exited with code", code>>
    /\ (Returned /\ apc = "done" /\ ~claudeResult.success) =>
          /\ ~result.success
          /\ Len(result.error) = 1 + Len(claudeResult.error)
          /\ result.error[1] = "Claude Code failed:"
          /\ SubSeq(result.error, 2, Len(result.error)) = claudeResult.error

C23_Witness ==
    /\ Returned /\ apc = "done" /\ code = "1" /\ stderr = <<>>
    /\ result.error =
          <<"Claude Code failed:", "Claude exited with code", "1">>

\* C28: when the work command's process has ended, its exit status is
\* non-zero if the configuration could not be loaded or was invalid, non-zero
\* if processTicket returned success=false, and 0 if it returned success=true.
C28_ExitStatusFollowsResult ==
    cpc = "exited" =>
        /\ configOutcome # "ok" => exitCode # 0
        /\ (configOutcome = "ok" /\ Returned) =>
              IF result.success THEN exitCode = 0 ELSE exitCode # 0

C28_Witness ==
    /\ cpc = "exited" /\ Returned /\ ~result.success /\ exitCode = 1
    /\ \E i \in CallsOf("push") : ~calls[i].ok

\* C32: once the running flag has been cleared by a stop, the daemon starts no
\* Worker run: no step taken while the flag is clear dispatches a ticket.
C32_NoDispatchAfterStop ==
    [][(~running /\ stopReport # <<>>) =>
          /\ inflight' <= inflight
          /\ \A k \in Keys : dispatched'[k] = dispatched[k]]_vars

\* C34: when a run's agent step begins, the working tree holds no uncommitted
\* change: none was left behind by an earlier run.
C34_CleanTreeAtAgentStart ==
    wpc = "agent" => ~dirty

\* C35: a returned WorkResult carries the pull request whenever the run created
\* one; a failure result without pr means that the run created no pull request
\* and posted no comment and requested no transition.
C35_ResultCarriesCreatedPr ==
    Returned =>
        /\ (\E i \in CallsOf("pr") : calls[i].ok) => result.pr
        /\ (~result.success /\ ~result.pr) =>
              /\ \A i \in CallsOf("pr") : ~calls[i].ok
              /\ \A i \in CallsOf("comment") : ~calls[i].ok
              /\ \A i \in CallsOf("transition") : ~calls[i].ok

\* C36: every returned WorkResult is well-formed: with success=true pr is
\* present and error absent; with success=false error is present and pr and
\* previewUrl are absent; ticketKey is the key processTicket was called with.
C36_WorkResultWellFormed ==
    Returned =>
        /\ result.success => result.pr /\ result.error = "none"
        /\ ~result.success =>
              /\ result.error \notin {"none", "unset"}
              /\ ~result.pr
              /\ ~result.previewUrl
        /\ result.ticketKey = ticket
        /\ result.ticketKey \in Keys

C36_Witness ==
    /\ Returned /\ ~result.success
    /\ \E i \in CallsOf("preview") : calls[i].ok
    /\ previewUrl
    /\ result.error = "comment"

\* C37: pushBranch, the summary and createPullRequest are reached only with
\* the tree on the feature branch and that branch at least one commit beyond
\* base: a commit the agent made, found by hasNewCommits, or the commit made
\* by commitChanges.
C37_PushOnlyWhenAhead ==
    /\ wpc \in {"push", "summary", "pr"} => ahead /\ head = Feature
    /\ (CallsOf("push") # {} \/ CallsOf("pr") # {}) =>
          \/ hasNewCommits
          \/ \E i \in CallsOf("commit") : calls[i].ok

C37_Witness ==
    /\ wpc = "preview"
    /\ \E i \in CallsOf("pr") : calls[i].ok
    /\ ~hasNewCommits
    /\ \E i \in CallsOf("commit") : calls[i].ok

\* C31: getDeploymentUrl is called by the Worker with maxAttempts =
\* ceil(previewTimeout / 5); it makes at most maxAttempts polling attempts;
\* it returns the URL at the first attempt that finds one, making no further
\* attempt; an erroring attempt counts as not ready and does not end the
\* call; it has slept once between any two attempts and not after the last;
\* and it returns null after exactly maxAttempts attempts without a URL.
C31_BoundedDeploymentPolling ==
    /\ gpc # "idle" =>
          /\ 5 * maxAttempts >= previewTimeout
          /\ 5 * (maxAttempts - 1) < previewTimeout
    /\ Len(polled) <= maxAttempts
    /\ \A i \in DOMAIN polled : polled[i] = "url" => i = Len(polled)
    /\ (polled # <<>> /\ polled[Len(polled)] = "url") =>
          gpc = "returned" /\ lookup = "url"
    /\ lookup = "threw" => polled = <<>>
    /\ lookup = "url" =>
          /\ polled[Len(polled)] = "url"
          /\ waits = Len(polled) - 1
    /\ lookup = "null" =>
          /\ Len(polled) = maxAttempts
          /\ \A i \in DOMAIN polled : polled[i] # "url"
          /\ waits = IF maxAttempts = 0 THEN 0 ELSE maxAttempts - 1
    /\ gpc = "sleep" => Len(polled) < maxAttempts
    /\ waits <= Len(polled)

C31_Witness ==
    /\ lookup = "null" /\ maxAttempts = 3 /\ waits = 2
    /\ polled[1] = "error" /\ polled[3] = "pending"

\* C33: a ticket that matches the candidate query and is not in the processed
\* set is eventually dispatched, while searches succeed and runs return; stated
\* for the ticket that ranks behind MaxResults others in the query's order.
C33_EligibleEventuallyDispatched ==
    (MaxResults + 1 \in candidates /\ MaxResults + 1 \notin qprocessed)
        ~> (MaxResults + 1 \in served)

\* C38: at most one interval timer of sleep() is live at any time, and once a
\* call of sleep() has resolved neither its timeout nor its interval is still
\* active.
C38_NoTimerOutlivesItsSleep ==
    /\ Cardinality({i \in DOMAIN intervals : intervals[i] = "live"}) <= 1
    /\ \A i \in DOMAIN timeouts :
          ~Awaited(i) => timeouts[i] # "pending" /\ intervals[i] # "live"

\* C39: the interval the daemon sleeps for is a strictly positive number of
\* seconds: the --interval value when one is given, else the global
\* bot.pollInterval, else 300; for every integer or unparsable --interval.
C39_PositivePollInterval ==
    ipc = "sleeping" =>
        /\ pollInterval.kind = "number"
        /\ pollInterval.n > 0
        /\ sleepMs.n > 0
        /\ interval.kind = "digits" => pollInterval = Num(interval.n)

====
